---------------------------- MODULE Spec2Model ----------------------------
(***************************************************************************)
(* A model of AutoSongTagger (src/auto_song_tagger.py): the metadata       *)
(* fetcher thread and its providers, the handler that sorts and shows the  *)
(* fetched candidates, and the tag writers of the two container variants.  *)
(*                                                                         *)
(* Text whose characters matter to the code (years, dates) is a sequence   *)
(* of one-character strings; every other text is an atomic string.         *)
(***************************************************************************)
EXTENDS Integers, Sequences, FiniteSets, TLC

VARIABLES
    \* ---- MetadataFetcherThread (one instance) ----
    f_pc,                \* position of run(): see FetchPcs
    f_artist,            \* self.artist
    f_title,             \* self.title
    f_use_public_apis,   \* self.use_public_apis
    f_public_apis,       \* self.public_apis: "PublicMusicAPIs" or "None"
    f_mb_results,        \* run(): musicbrainz_results
    f_audiodb_results,   \* run(): audiodb_results
    f_deezer_results,    \* run(): deezer_results
    f_lyrics_results,    \* run(): lyrics_results
    f_options,           \* run(): metadata_options
    \* ---- the network, as the thread met it ----
    net_mb,              \* the MusicBrainz server's answers to this fetch
    net_cover,           \* the Cover Art Archive's answer per primary record
    net_audiodb,         \* TheAudioDB's answer
    net_deezer,          \* Deezer's answer
    net_lyrics,          \* Lyrics.ovh's answer
    calls,               \* the requests sent, in order
    \* ---- signals queued to the GUI thread ----
    sig_finished,        \* MetadataFetcherThread.finished emissions, pending
    sig_progress,        \* progress_signal emissions, in order
    n_finished,          \* how many times finished was emitted
    \* ---- AutoSongTaggerUI ----
    ui_metadata_options, \* self.metadata_options
    ui_rows,             \* self.results_list: the rows of the table
    ui_progress_shown,   \* self.progress_bar is visible
    ui_message,          \* the message box the last result slot showed
    ui_fault,            \* the exception that escaped the last slot ("" for none)
    ui_delivered,        \* the list the last finished signal carried
    ui_song_file_path,   \* self.song_file_path
    ui_apply_enabled,    \* self.apply_button.isEnabled()
    \* ---- the audio file and the tag writer ----
    file,                \* the file on disk: [ext, loads, tags]
    w_last,              \* the last write_tags call: [metadata, cover, before, outcome]
    other_file,          \* a second file on disk, not the selected one
    \* ---- a call of _choose_release ----
    choose_call,         \* [release_list, returned]: the argument, the result
    \* ---- AutoSongTaggerUI: the tag fields, the buttons, the writers ----
    ui_fetch_enabled,    \* self.fetch_button.isEnabled()
    f_running,           \* MetadataFetcherThreads started and not yet ended
    ui_current,          \* the texts of the six current_..._input fields
    ui_original_tags,    \* self._original_tags
    ui_selected,         \* the selected row of self.results_list (0: none)
    ui_new_cover_data,   \* self._new_cover_data
    writers,             \* the TagWriterThreads started, in order
    sig_written          \* TagWriterThread.finished emissions, pending

fetchVars == <<f_pc, f_artist, f_title, f_use_public_apis, f_public_apis,
               f_mb_results, f_audiodb_results, f_deezer_results,
               f_lyrics_results, f_options>>
netVars   == <<net_mb, net_cover, net_audiodb, net_deezer, net_lyrics, calls>>
sigVars   == <<sig_finished, sig_progress, n_finished>>
uiVars    == <<ui_metadata_options, ui_rows, ui_progress_shown, ui_message,
               ui_fault, ui_delivered, ui_song_file_path, ui_apply_enabled>>
fileVars  == <<file, w_last, other_file>>
applyVars == <<ui_fetch_enabled, f_running, ui_current, ui_original_tags,
               ui_selected, ui_new_cover_data, writers, sig_written>>
vars      == <<fetchVars, netVars, sigVars, uiVars, fileVars, applyVars,
               choose_call>>

---------------------------------------------------------------------------
(* Python's text operations, on sequences of characters.                   *)

\* Python None, and a dictionary key that is absent.
None   == "None"
Absent == "<absent>"

DecimalChars == {"0", "1", "2", "3", "4", "5", "6", "7", "8", "9"}
\* U+00B2 SUPERSCRIPT TWO, written "^2": str.isdigit() accepts it (a digit
\* that is no decimal), int() rejects it.
SuperscriptChars == {"^2"}
WhitespaceChars == {" "}

DigitValue(c) ==
    CASE c = "0" -> 0 [] c = "1" -> 1 [] c = "2" -> 2 [] c = "3" -> 3
      [] c = "4" -> 4 [] c = "5" -> 5 [] c = "6" -> 6 [] c = "7" -> 7
      [] c = "8" -> 8 [] c = "9" -> 9

Min(a, b) == IF a <= b THEN a ELSE b

\* s[:n]
Take(s, n) == SubSeq(s, 1, Min(n, Len(s)))

RECURSIVE LStrip(_)
LStrip(s) ==
    IF s # <<>> /\ Head(s) \in WhitespaceChars THEN LStrip(Tail(s)) ELSE s

RECURSIVE RStrip(_)
RStrip(s) ==
    IF s # <<>> /\ s[Len(s)] \in WhitespaceChars
    THEN RStrip(SubSeq(s, 1, Len(s) - 1))
    ELSE s

\* str.strip()
Strip(s) == RStrip(LStrip(s))

\* str.isdigit(): non-empty and every character has the Unicode digit
\* property, which decimals and superscript digits have.
IsDigit(s) ==
    /\ s # <<>>
    /\ \A i \in 1..Len(s) : s[i] \in DecimalChars \cup SuperscriptChars

RECURSIVE DecimalValue(_)
DecimalValue(s) ==
    IF s = <<>> THEN 0
    ELSE 10 * DecimalValue(SubSeq(s, 1, Len(s) - 1)) + DigitValue(s[Len(s)])

\* int(s): surrounding whitespace is ignored; anything but decimal digits
\* raises ValueError.
PyInt(s) ==
    LET t == Strip(s) IN
    IF t # <<>> /\ \A i \in 1..Len(t) : t[i] \in DecimalChars
    THEN [raises |-> FALSE, val |-> DecimalValue(t)]
    ELSE [raises |-> TRUE, val |-> 0]

---------------------------------------------------------------------------
(* AutoSongTaggerUI._on_metadata_fetched: the sort and the table.          *)

\* The key of a year that is not numeric.
SentinelYear == 9999

\* A key that puts the records without a numeric year first.
YearKeyUndatedFirst(meta) ==
    IF IsDigit(Strip(meta.year))
    THEN PyInt(Take(meta.year, 4))
    ELSE [raises |-> FALSE, val |-> 0]

\* The sort's key function (the lambda).
YearKey(meta) ==
    IF IsDigit(Strip(meta.year))
    THEN PyInt(Take(meta.year, 4))
    ELSE [raises |-> FALSE, val |-> SentinelYear]

\* One step of a stable sort: x goes behind every element whose key is not
\* greater than its own.
RECURSIVE InsertByKey(_, _)
InsertByKey(sorted, x) ==
    IF sorted = <<>> THEN <<x>>
    ELSE IF YearKey(Head(sorted)).val <= YearKey(x).val
         THEN <<Head(sorted)>> \o InsertByKey(Tail(sorted), x)
         ELSE <<x>> \o sorted

RECURSIVE StableSort(_)
StableSort(s) ==
    IF s = <<>> THEN <<>>
    ELSE InsertByKey(StableSort(SubSeq(s, 1, Len(s) - 1)), s[Len(s)])

\* list.sort(key=...): the keys are computed first; a key that raises leaves
\* the list as it was and the exception propagates.
SortByYear(s) ==
    IF \E i \in 1..Len(s) : YearKey(s[i]).raises
    THEN [raises |-> TRUE, list |-> s]
    ELSE [raises |-> FALSE, list |-> StableSort(s)]

\* One row of the results table: the seven columns.
TableRow(meta) ==
    [source |-> meta.source, artist |-> meta.artist, title |-> meta.title,
     album |-> meta.album, year |-> meta.year, track |-> meta.track,
     genre |-> meta.genre]

TableRows(s) == [i \in 1..Len(s) |-> TableRow(s[i])]

---------------------------------------------------------------------------
(* The MusicBrainz functions: fetch_song_metadata and its helpers.         *)
(*                                                                         *)
(* A dictionary of the parsed response is a record; a key that may be      *)
(* missing has the value Absent (a text) or a has_... flag (a list).       *)
(* The server's answers to one fetch are a world:                          *)
(*   search     : [error, has_recording_list, recording_list]              *)
(*   releases   : release id   -> [error, has_release, release]            *)
(*   recordings : recording id -> [error, has_recording, recording]        *)
(* The functions thread a state st = [cache, calls, raised, out]: the      *)
(* release_cache, the requests sent so far, the exception that is          *)
(* propagating ("" for none) and the records built so far.                 *)

\* dict.get(key, "") of a text key.
GetOrEmpty(v) == IF v = Absent THEN "" ELSE v

\* sep.join(names)
RECURSIVE Join(_, _)
Join(sep, names) ==
    IF names = <<>> THEN ""
    ELSE IF Len(names) = 1 THEN names[1]
    ELSE names[1] \o sep \o Join(sep, Tail(names))

\* _get_track_number: the number of the first track, over all media, whose
\* recording id is recording_id.
RECURSIVE TrackInList(_, _)
TrackInList(track_list, recording_id) ==
    IF track_list = <<>> THEN [found |-> FALSE, number |-> ""]
    ELSE IF Head(track_list).rec_id = recording_id
         THEN [found |-> TRUE, number |-> GetOrEmpty(Head(track_list).number)]
         ELSE TrackInList(Tail(track_list), recording_id)

RECURSIVE TrackInMedia(_, _)
TrackInMedia(medium_list, recording_id) ==
    IF medium_list = <<>> THEN ""
    ELSE LET m == Head(medium_list)
             t == IF m.has_track_list
                  THEN TrackInList(m.track_list, recording_id)
                  ELSE [found |-> FALSE, number |-> ""]
         IN IF t.found THEN t.number
            ELSE TrackInMedia(Tail(medium_list), recording_id)

GetTrackNumber(release, recording_id) ==
    IF release.has_medium_list
    THEN TrackInMedia(release.medium_list, recording_id)
    ELSE ""

\* _get_genre: tag["name"] raises KeyError for a tag without a name.
GetGenre(recording) ==
    IF recording.has_tag_list /\ recording.tag_list # <<>>
    THEN IF \E i \in 1..Len(recording.tag_list) :
                recording.tag_list[i].name = Absent
         THEN [raised |-> "KeyError", genre |-> ""]
         ELSE [raised |-> "",
               genre |-> Join(", ", [i \in 1..Len(recording.tag_list) |->
                                        recording.tag_list[i].name])]
    ELSE [raised |-> "", genre |-> ""]

\* A choice that takes the first release whatever it carries.
ChooseReleaseFirst(release_list) == release_list[1]

\* _choose_release: the first release with a "date" key, else the first.
ChooseRelease(release_list) ==
    IF \E i \in 1..Len(release_list) : release_list[i].has_date
    THEN release_list[CHOOSE i \in 1..Len(release_list) :
                         /\ release_list[i].has_date
                         /\ \A j \in 1..(i - 1) : ~release_list[j].has_date]
    ELSE release_list[1]

\* The year of a release date: its first four characters when they are
\* digits, else empty.
YearOfDate(date_str) ==
    IF Len(date_str) >= 4 /\ IsDigit(Take(date_str, 4))
    THEN Take(date_str, 4)
    ELSE <<>>

\* A lookup of the release details that asks the server every time.
FetchReleaseDetailsUncached(release_id, world, st) ==
    LET answer == world.releases[release_id]
        sent   == Append(st.calls, [api |-> "get_release_by_id",
                                    arg |-> release_id])
    IN [details |-> answer, none |-> answer.error,
        st |-> [st EXCEPT !.calls = sent]]

\* _fetch_and_cache_release_details: a cached answer is returned without a
\* request; a WebServiceError is caught, returns None and caches nothing.
FetchAndCacheReleaseDetails(release_id, world, st) ==
    IF release_id \in DOMAIN st.cache
    THEN [details |-> st.cache[release_id], none |-> FALSE, st |-> st]
    ELSE LET answer == world.releases[release_id]
             sent   == Append(st.calls, [api |-> "get_release_by_id",
                                         arg |-> release_id])
         IN IF answer.error
            THEN [details |-> answer, none |-> TRUE,
                  st |-> [st EXCEPT !.calls = sent]]
            ELSE [details |-> answer, none |-> FALSE,
                  st |-> [st EXCEPT !.calls = sent,
                                    !.cache = (release_id :> answer) @@ st.cache]]

\* _get_release_info: album, year and track of the chosen release.
\* recording["id"] raises KeyError for a recording without an id.
GetReleaseInfo(recording, world, st) ==
    LET empty == [album |-> "", year |-> <<>>, track |-> "", raised |-> "",
                  st |-> st]
    IN
    IF ~(recording.has_release_list /\ recording.release_list # <<>>)
    THEN empty
    ELSE
      LET chosen == ChooseRelease(recording.release_list)
          album  == GetOrEmpty(chosen.title)
          year   == YearOfDate(IF chosen.has_date THEN chosen.date ELSE <<>>)
          known  == [empty EXCEPT !.album = album, !.year = year]
      IN
      IF chosen.id = Absent \/ chosen.id = ""
      THEN known
      ELSE
        LET got == FetchAndCacheReleaseDetails(chosen.id, world, st) IN
        IF ~got.none /\ got.details.has_release
        THEN IF recording.id = Absent
             THEN [known EXCEPT !.raised = "KeyError", !.st = got.st]
             ELSE [known EXCEPT
                     !.track = GetTrackNumber(got.details.release, recording.id),
                     !.st = got.st]
        ELSE [known EXCEPT !.st = got.st]

\* The recording _process_recording goes on with: the one of the search
\* when it has tags or no id, else the answer of get_recording_by_id (with
\* the request sent), unless that request fails or has no "recording".
EnrichedRecording(recording, world, st) ==
    IF (~recording.has_tag_list \/ recording.tag_list = <<>>)
       /\ recording.id # Absent /\ recording.id # ""
    THEN LET answer == world.recordings[recording.id]
             sent   == [st EXCEPT !.calls =
                           Append(@, [api |-> "get_recording_by_id",
                                      arg |-> recording.id])]
         IN IF ~answer.error /\ answer.has_recording
            THEN [recording |-> answer.recording, st |-> sent]
            ELSE [recording |-> recording, st |-> sent]
    ELSE [recording |-> recording, st |-> st]

\* The release_id _process_recording stores for the cover art lookup.
StoredReleaseId(recording) ==
    IF recording.has_release_list /\ recording.release_list # <<>>
    THEN GetOrEmpty(ChooseRelease(recording.release_list).id)
    ELSE ""

\* _process_recording: st with the record appended, or with the exception.
ProcessRecording(recording, artist, world, st) ==
    LET info == GetReleaseInfo(recording, world, st) IN
    IF info.raised # "" THEN [info.st EXCEPT !.raised = info.raised]
    ELSE
      LET full  == EnrichedRecording(recording, world, info.st)
          genre == GetGenre(full.recording)
      IN
      IF genre.raised # "" THEN [full.st EXCEPT !.raised = genre.raised]
      ELSE [full.st EXCEPT !.out = Append(@,
              [title      |-> GetOrEmpty(full.recording.title),
               artist     |-> artist,
               album      |-> info.album,
               year       |-> info.year,
               track      |-> info.track,
               genre      |-> genre.genre,
               source     |-> "MusicBrainz",
               release_id |-> StoredReleaseId(full.recording),
               cover_url  |-> None,
               has_lyrics |-> Absent])]

\* The list comprehension of fetch_song_metadata, left to right; an
\* exception ends it.
RECURSIVE ProcessAll(_, _, _, _)
ProcessAll(recording_list, artist, world, st) ==
    IF recording_list = <<>> \/ st.raised # "" THEN st
    ELSE ProcessAll(Tail(recording_list), artist, world,
                    ProcessRecording(Head(recording_list), artist, world, st))

\* fetch_song_metadata: [raised, results, calls].  Only the search request
\* is guarded, and only against WebServiceError.
FetchSongMetadata(artist, title, world) ==
    LET sent == <<[api |-> "search_recordings", arg |-> artist]>> IN
    IF world.search.error
    THEN [raised |-> "", results |-> <<>>, calls |-> sent]
    ELSE IF ~world.search.has_recording_list
            \/ world.search.recording_list = <<>>
    THEN [raised |-> "", results |-> <<>>, calls |-> sent]
    ELSE LET st == ProcessAll(world.search.recording_list, artist, world,
                              [cache |-> <<>>, calls |-> sent,
                               raised |-> "", out |-> <<>>])
         IN [raised |-> st.raised,
             results |-> IF st.raised = "" THEN st.out ELSE <<>>,
             calls |-> st.calls]

---------------------------------------------------------------------------
(* PublicMusicAPIs: the adapters of the secondary providers.               *)
(*                                                                         *)
(* An HTTP answer is [kind, ...]: kind "exception" (requests.get raised),  *)
(* "status" (a status other than 200) or "ok" (status 200, with the JSON). *)
(* Every adapter runs inside try/except Exception and returns [] (None for *)
(* the cover lookup) whenever anything raised.                             *)

\* a or b, on texts.
OrElse(a, b) == IF a # "" /\ a # Absent THEN a ELSE GetOrEmpty(b)

\* The year of a TheAudioDB or Deezer date: its first four characters when
\* it has that many, else empty.
YearPrefix(release_date) ==
    IF release_date # <<>> /\ Len(release_date) >= 4
    THEN Take(release_date, 4)
    ELSE <<>>

AudioDbRecord(track) ==
    [title      |-> GetOrEmpty(track.strTrack),
     artist     |-> GetOrEmpty(track.strArtist),
     album      |-> GetOrEmpty(track.strAlbum),
     year       |-> YearPrefix(track.intYearReleased),
     track      |-> GetOrEmpty(track.strTrackNumber),
     genre      |-> GetOrEmpty(track.strGenre),
     source     |-> "TheAudioDB",
     release_id |-> Absent,
     cover_url  |-> OrElse(track.strTrackThumb, track.strAlbumThumb),
     has_lyrics |-> Absent]

\* search_audiodb.  data["track"] that is null (track_kind "null") makes
\* the for loop raise TypeError, a track that is no dictionary makes
\* track.get raise AttributeError: both are caught.
SearchAudioDb(answer) ==
    IF answer.kind # "ok" THEN <<>>
    ELSE IF answer.track_kind = "null" THEN <<>>
    ELSE IF answer.track_kind = "absent" THEN <<>>
    ELSE IF \E i \in 1..Len(answer.tracks) : ~answer.tracks[i].is_dict
    THEN <<>>
    ELSE [i \in 1..Len(answer.tracks) |-> AudioDbRecord(answer.tracks[i])]

DeezerRecord(track) ==
    [title      |-> GetOrEmpty(track.title),
     artist     |-> GetOrEmpty(track.artist_name),
     album      |-> GetOrEmpty(track.album_title),
     year       |-> YearPrefix(track.release_date),
     track      |-> GetOrEmpty(track.track_position),
     genre      |-> "",
     source     |-> "Deezer",
     release_id |-> Absent,
     cover_url  |-> OrElse(track.cover_medium, track.cover),
     has_lyrics |-> Absent]

\* search_deezer.  A track that is no dictionary raises (caught).
SearchDeezer(answer) ==
    IF answer.kind # "ok" THEN <<>>
    ELSE IF \E i \in 1..Len(answer.data) : ~answer.data[i].is_dict
    THEN <<>>
    ELSE [i \in 1..Len(answer.data) |-> DeezerRecord(answer.data[i])]

\* A lyrics record that names the title as its album too.
LyricsRecordWithAlbum(artist, title) ==
    [title      |-> title,
     artist     |-> artist,
     album      |-> title,
     year       |-> <<>>,
     track      |-> "",
     genre      |-> "",
     source     |-> "Lyrics.ovh",
     release_id |-> Absent,
     cover_url  |-> Absent,
     has_lyrics |-> "True"]

\* The one record search_lrcat builds.
LyricsRecord(artist, title) ==
    [title      |-> title,
     artist     |-> artist,
     album      |-> "",
     year       |-> <<>>,
     track      |-> "",
     genre      |-> "",
     source     |-> "Lyrics.ovh",
     release_id |-> Absent,
     cover_url  |-> Absent,
     has_lyrics |-> "True"]

\* search_lrcat
SearchLrcat(artist, title, answer) ==
    IF answer.kind = "ok" THEN <<LyricsRecord(artist, title)>> ELSE <<>>

\* search_musicbrainz_cover_art: the "image" of the first image flagged
\* front, else of the first image; None when there is none.
SearchMusicbrainzCoverArt(answer) ==
    IF answer.kind # "ok" \/ answer.images = <<>> THEN None
    ELSE LET fronts == {i \in 1..Len(answer.images) : answer.images[i].front}
             first  == IF fronts # {}
                       THEN CHOOSE i \in fronts : \A j \in fronts : i <= j
                       ELSE 1
         IN IF answer.images[first].image = Absent
            THEN None
            ELSE answer.images[first].image

---------------------------------------------------------------------------
(* The inputs of the model.                                                *)

\* The recordings in one MusicBrainz search answer.
MaxRecordings == 2
\* The tracks in one TheAudioDB or Deezer answer.
MaxTracks == 1
\* The records in a list handed to the sort alone.
MaxList == 3

\* The sequences over S of length at most n.
SeqUpTo(S, n) == UNION {[1..k -> S] : k \in 0..n}

\* What the user typed into the artist and title fields.
ArtistInputs == {" Queen ", ""}
TitleInputs  == {"Bohemian Rhapsody", ""}

\* str.strip() of a typed text.
StripText(t) == IF t = " Queen " THEN "Queen" ELSE t

Date1975 == <<"1", "9", "7", "5", "-", "1", "0", "-", "3", "1">>

RelDated ==
    [id |-> "rel1", title |-> "A Night at the Opera",
     has_date |-> TRUE, date |-> Date1975]
RelUndated ==
    [id |-> "rel2", title |-> "Greatest Hits",
     has_date |-> FALSE, date |-> <<>>]

\* A recording with a dated release and tags.
RecDated ==
    [id |-> "rec1", title |-> "Bohemian Rhapsody",
     has_release_list |-> TRUE, release_list |-> <<RelDated>>,
     has_tag_list |-> TRUE, tag_list |-> <<[name |-> "rock"]>>]
\* A recording with an undated release and no tags.
RecUndated ==
    [id |-> "rec2", title |-> "Bohemian Rhapsody (live)",
     has_release_list |-> TRUE, release_list |-> <<RelUndated>>,
     has_tag_list |-> FALSE, tag_list |-> <<>>]
\* A recording one of whose tags has no name.
RecTagNoName ==
    [id |-> "rec3", title |-> "Bohemian Rhapsody",
     has_release_list |-> FALSE, release_list |-> <<>>,
     has_tag_list |-> TRUE, tag_list |-> <<[name |-> Absent]>>]
\* A recording without an id, on a release the server knows.
RecNoId ==
    [id |-> Absent, title |-> "Bohemian Rhapsody",
     has_release_list |-> TRUE, release_list |-> <<RelDated>>,
     has_tag_list |-> TRUE, tag_list |-> <<[name |-> "rock"]>>]

ReleaseIds   == {"rel1", "rel2"}
RecordingIds == {"rec1", "rec2", "rec3"}

\* get_release_by_id: rel1 is known with its track list, rel2 fails.
ReleaseAnswers ==
    [r \in ReleaseIds |->
       IF r = "rel1"
       THEN [error |-> FALSE, has_release |-> TRUE,
             release |-> [has_medium_list |-> TRUE,
                          medium_list |-> <<[has_track_list |-> TRUE,
                              track_list |-> <<[rec_id |-> "rec1",
                                                number |-> "11"]>>]>>]]
       ELSE [error |-> TRUE, has_release |-> FALSE,
             release |-> [has_medium_list |-> FALSE, medium_list |-> <<>>]]]

\* get_recording_by_id(includes=["tags"]): the recording with its tags and
\* without its releases.
RecordingAnswers ==
    [r \in RecordingIds |->
       [error |-> FALSE, has_recording |-> TRUE,
        recording |-> [id |-> r, title |-> "Bohemian Rhapsody (live)",
                       has_release_list |-> FALSE, release_list |-> <<>>,
                       has_tag_list |-> TRUE,
                       tag_list |-> <<[name |-> "rock"], [name |-> "pop"]>>]]]

SearchAnswer(error, has_list, list) ==
    [error |-> error, has_recording_list |-> has_list, recording_list |-> list]

World(search) ==
    [search |-> search, releases |-> ReleaseAnswers,
     recordings |-> RecordingAnswers]

FetchRecordings == {RecDated, RecUndated, RecTagNoName, RecNoId}

\* The MusicBrainz answers a fetch may meet.
FetchWorlds ==
    {World(SearchAnswer(TRUE, FALSE, <<>>)),
     World(SearchAnswer(FALSE, FALSE, <<>>))}
    \cup {World(SearchAnswer(FALSE, TRUE, l)) :
            l \in SeqUpTo(FetchRecordings, MaxRecordings)}

\* The Cover Art Archive's answers.
CoverAnswers ==
    {[kind |-> "status", images |-> <<>>],
     [kind |-> "ok", images |-> <<[front |-> FALSE, image |-> "http://caa/back.jpg"],
                                  [front |-> TRUE, image |-> "http://caa/front.jpg"]>>]}
NotAsked == [kind |-> "not asked", images |-> <<>>]

AudioDbTrack(year, is_dict) ==
    [strTrack |-> "Bohemian Rhapsody", strArtist |-> "Queen",
     strAlbum |-> "Singles", intYearReleased |-> year,
     strTrackNumber |-> "1", strGenre |-> "Rock",
     strTrackThumb |-> Absent, strAlbumThumb |-> "http://adb/album.jpg",
     is_dict |-> is_dict]

AudioDbTracks ==
    {AudioDbTrack(<<"1", "9", "7", "0">>, TRUE),
     AudioDbTrack(<<>>, TRUE),
     AudioDbTrack(<<"1", "9", "^2", "5">>, TRUE)}

AudioDbAnswers ==
    {[kind |-> k, track_kind |-> "absent", tracks |-> <<>>] :
        k \in {"exception", "status"}}
    \cup {[kind |-> "ok", track_kind |-> "null", tracks |-> <<>>]}
    \cup {[kind |-> "ok", track_kind |-> "list", tracks |-> l] :
            l \in SeqUpTo(AudioDbTracks, MaxTracks)}

DeezerTrack(date, is_dict) ==
    [title |-> "Bohemian Rhapsody", artist_name |-> "Queen",
     album_title |-> "Platinum Collection", release_date |-> date,
     track_position |-> "1", cover_medium |-> Absent,
     cover |-> "http://dz/cover.jpg", is_dict |-> is_dict]

DeezerTracks ==
    {DeezerTrack(<<"1", "9", "8", "1", "-", "1", "1">>, TRUE),
     DeezerTrack(<<>>, FALSE)}

DeezerAnswers ==
    {[kind |-> k, data |-> <<>>] : k \in {"exception", "status"}}
    \cup {[kind |-> "ok", data |-> l] : l \in SeqUpTo(DeezerTracks, MaxTracks)}

LyricsAnswers == {[kind |-> "exception"], [kind |-> "status"], [kind |-> "ok"]}

---------------------------------------------------------------------------
(* MetadataFetcherThread.run, a step per request, and the slots of         *)
(* AutoSongTaggerUI that start it and receive its result.                  *)

FetchPcs == {"idle", "search_mb", "cover", "audiodb", "deezer", "lyrics",
             "emit", "done", "crashed"}

\* An extend that puts the new records in front.
ExtendInFront(list, more) == more \o list

\* list.extend
Extend(list, more) == list \o more

\* The condition of the cover art lookup of one MusicBrainz result.
WantsCoverLookup(result, public_apis) ==
    result.release_id # Absent /\ public_apis # None

\* A loop that stores the URL and leaves the source as it was.
EnhanceKeepingSource(result, cover_url) ==
    IF cover_url # None /\ cover_url # ""
    THEN [result EXCEPT !.cover_url = cover_url]
    ELSE result

\* What the loop does with the looked-up URL.
EnhanceWithCover(result, cover_url) ==
    IF cover_url # None /\ cover_url # ""
    THEN [result EXCEPT !.cover_url = cover_url,
                        !.source = "MusicBrainz (with cover)"]
    ELSE result

\* A public API block that runs whatever the flag says.
PublicApisAlways(use_public_apis, public_apis) == TRUE

\* The condition of the public API block.
PublicApisEnabled(use_public_apis, public_apis) ==
    use_public_apis /\ public_apis # None

\* A Lyrics.ovh query that is made whatever was found.
LyricsAlways(metadata_options) == TRUE

\* "Only use Lyrics.ovh if no other results found".
LyricsWanted(metadata_options) == metadata_options = <<>>

CallsFor(results, public_apis) ==
    LET wanted == {i \in 1..Len(results) : WantsCoverLookup(results[i], public_apis)}
        F[i \in 0..Len(results)] ==
            IF i = 0 THEN <<>>
            ELSE IF i \in wanted
                 THEN Append(F[i - 1], [api |-> "cover_art",
                                        arg |-> results[i].release_id])
                 ELSE F[i - 1]
    IN F[Len(results)]

\* fetch_metadata, when it returns early: a modal warning is shown and no
\* field of the window changes.
FetchMetadataRejected ==
    /\ \E artist_text \in ArtistInputs, title_text \in TitleInputs :
         \/ ui_song_file_path = ""
         \/ StripText(artist_text) = ""
         \/ StripText(title_text) = ""
    /\ UNCHANGED vars

\* The six tag fields, all cleared.
EmptyFields ==
    [artist |-> "", title |-> "", album |-> "", year |-> <<>>,
     track |-> "", genre |-> ""]

\* fetch_metadata, when it starts the thread.  The window passes
\* use_public_apis = True; the thread's own default is False.  The model
\* follows one thread from its start to the handling of its result.
\* setRowCount(0) takes the selection with the rows: enable_apply_button
\* then clears the tag fields, and the Apply button ends disabled.  The
\* Fetch button stays as it is.
FetchMetadata ==
    /\ f_pc = "idle"
    /\ ui_fetch_enabled
    /\ ui_song_file_path # ""
    /\ \E artist_text \in ArtistInputs, title_text \in TitleInputs,
          use \in BOOLEAN :
         /\ StripText(artist_text) # ""
         /\ StripText(title_text) # ""
         /\ f_artist' = StripText(artist_text)
         /\ f_title' = StripText(title_text)
         /\ f_use_public_apis' = use
         /\ f_public_apis' = IF use THEN "PublicMusicAPIs" ELSE None
    /\ f_pc' = "search_mb"
    /\ ui_rows' = <<>>
    /\ ui_apply_enabled' = FALSE
    /\ ui_progress_shown' = TRUE
    /\ ui_fault' = ""
    /\ UNCHANGED <<f_mb_results, f_audiodb_results, f_deezer_results,
                   f_lyrics_results, f_options>>
    /\ f_running' = f_running + 1
    /\ ui_selected' = 0
    /\ ui_current' = IF ui_selected # 0 THEN EmptyFields ELSE ui_current
    /\ UNCHANGED <<ui_metadata_options, ui_message, ui_delivered,
                   ui_song_file_path>>
    /\ UNCHANGED <<ui_fetch_enabled, ui_original_tags, ui_new_cover_data,
                   writers, sig_written>>
    /\ UNCHANGED <<netVars, sigVars, fileVars>>
    /\ UNCHANGED choose_call

\* run(): the MusicBrainz search.  An exception of fetch_song_metadata is
\* caught nowhere: it ends run() before finished is emitted.
RunSearchMusicBrainz ==
    /\ f_pc = "search_mb"
    /\ sig_progress' = Append(sig_progress, "Searching MusicBrainz...")
    /\ \E world \in FetchWorlds :
         LET r == FetchSongMetadata(f_artist, f_title, world) IN
         /\ net_mb' = world
         /\ calls' = calls \o r.calls
         /\ IF r.raised # ""
            THEN /\ f_pc' = "crashed"
                 /\ f_running' = f_running - 1
                 /\ UNCHANGED f_mb_results
            ELSE /\ f_pc' = "cover"
                 /\ f_running' = f_running
                 /\ f_mb_results' = r.results
    /\ UNCHANGED <<f_artist, f_title, f_use_public_apis, f_public_apis,
                   f_audiodb_results, f_deezer_results, f_lyrics_results,
                   f_options>>
    /\ UNCHANGED <<net_cover, net_audiodb, net_deezer, net_lyrics>>
    /\ UNCHANGED <<sig_finished, n_finished, uiVars, fileVars>>
    /\ UNCHANGED choose_call
    /\ UNCHANGED <<ui_fetch_enabled, ui_current, ui_original_tags, ui_selected,
                   ui_new_cover_data, writers, sig_written>>

\* run(): the cover art loop over the MusicBrainz results, and the extend.
RunCoverArt ==
    /\ f_pc = "cover"
    /\ \E answers \in [1..Len(f_mb_results) -> CoverAnswers \cup {NotAsked}] :
         LET enhanced ==
               [i \in 1..Len(f_mb_results) |->
                  IF WantsCoverLookup(f_mb_results[i], f_public_apis)
                  THEN EnhanceWithCover(f_mb_results[i],
                                        SearchMusicbrainzCoverArt(answers[i]))
                  ELSE f_mb_results[i]]
         IN
         /\ \A i \in 1..Len(f_mb_results) :
              (answers[i] = NotAsked)
                 <=> ~WantsCoverLookup(f_mb_results[i], f_public_apis)
         /\ net_cover' = answers
         /\ calls' = calls \o CallsFor(f_mb_results, f_public_apis)
         /\ f_mb_results' = enhanced
         /\ f_options' = Extend(f_options, enhanced)
    /\ f_pc' = IF PublicApisEnabled(f_use_public_apis, f_public_apis)
               THEN "audiodb" ELSE "emit"
    /\ UNCHANGED <<f_artist, f_title, f_use_public_apis, f_public_apis,
                   f_audiodb_results, f_deezer_results, f_lyrics_results>>
    /\ UNCHANGED <<net_mb, net_audiodb, net_deezer, net_lyrics>>
    /\ UNCHANGED <<sigVars, uiVars, fileVars>>
    /\ UNCHANGED choose_call
    /\ UNCHANGED applyVars

\* run(): TheAudioDB.
RunAudioDb ==
    /\ f_pc = "audiodb"
    /\ sig_progress' = Append(sig_progress, "Searching TheAudioDB...")
    /\ \E answer \in AudioDbAnswers :
         /\ net_audiodb' = answer
         /\ f_audiodb_results' = SearchAudioDb(answer)
         /\ f_options' = Extend(f_options, SearchAudioDb(answer))
    /\ calls' = Append(calls, [api |-> "audiodb", arg |-> f_artist])
    /\ f_pc' = "deezer"
    /\ UNCHANGED <<f_artist, f_title, f_use_public_apis, f_public_apis,
                   f_mb_results, f_deezer_results, f_lyrics_results>>
    /\ UNCHANGED <<net_mb, net_cover, net_deezer, net_lyrics>>
    /\ UNCHANGED <<sig_finished, n_finished, uiVars, fileVars>>
    /\ UNCHANGED choose_call
    /\ UNCHANGED applyVars

\* run(): Deezer, and the test that decides on Lyrics.ovh.
RunDeezer ==
    /\ f_pc = "deezer"
    /\ sig_progress' = Append(sig_progress, "Searching Deezer...")
    /\ \E answer \in DeezerAnswers :
         /\ net_deezer' = answer
         /\ f_deezer_results' = SearchDeezer(answer)
         /\ f_options' = Extend(f_options, SearchDeezer(answer))
    /\ calls' = Append(calls, [api |-> "deezer", arg |-> f_artist])
    /\ f_pc' = IF LyricsWanted(f_options') THEN "lyrics" ELSE "emit"
    /\ UNCHANGED <<f_artist, f_title, f_use_public_apis, f_public_apis,
                   f_mb_results, f_audiodb_results, f_lyrics_results>>
    /\ UNCHANGED <<net_mb, net_cover, net_audiodb, net_lyrics>>
    /\ UNCHANGED <<sig_finished, n_finished, uiVars, fileVars>>
    /\ UNCHANGED choose_call
    /\ UNCHANGED applyVars

\* run(): Lyrics.ovh.
RunLyrics ==
    /\ f_pc = "lyrics"
    /\ sig_progress' = Append(sig_progress, "Searching Lyrics.ovh...")
    /\ \E answer \in LyricsAnswers :
         /\ net_lyrics' = answer
         /\ f_lyrics_results' = SearchLrcat(f_artist, f_title, answer)
         /\ f_options' = Extend(f_options, SearchLrcat(f_artist, f_title, answer))
    /\ calls' = Append(calls, [api |-> "lyrics", arg |-> f_artist])
    /\ f_pc' = "emit"
    /\ UNCHANGED <<f_artist, f_title, f_use_public_apis, f_public_apis,
                   f_mb_results, f_audiodb_results, f_deezer_results>>
    /\ UNCHANGED <<net_mb, net_cover, net_audiodb, net_deezer>>
    /\ UNCHANGED <<sig_finished, n_finished, uiVars, fileVars>>
    /\ UNCHANGED choose_call
    /\ UNCHANGED applyVars

\* run(): self.finished.emit(metadata_options).
RunEmit ==
    /\ f_pc = "emit"
    /\ sig_finished' = Append(sig_finished, f_options)
    /\ n_finished' = n_finished + 1
    /\ f_pc' = "done"
    /\ UNCHANGED <<f_artist, f_title, f_use_public_apis, f_public_apis,
                   f_mb_results, f_audiodb_results, f_deezer_results,
                   f_lyrics_results, f_options>>
    /\ UNCHANGED <<sig_progress, netVars, uiVars, fileVars>>
    /\ UNCHANGED choose_call
    /\ f_running' = f_running - 1
    /\ UNCHANGED <<ui_fetch_enabled, ui_current, ui_original_tags, ui_selected,
                   ui_new_cover_data, writers, sig_written>>

\* _on_metadata_fetched: an empty list is reported and changes nothing
\* else; any other list is stored, sorted in place and appended to the
\* table.  A ValueError of the sort escapes the slot after the list was
\* stored and before any row is added.
OnMetadataFetched ==
    /\ sig_finished # <<>>
    /\ LET metadata_options == Head(sig_finished)
           sorted == SortByYear(metadata_options)
       IN
       /\ sig_finished' = Tail(sig_finished)
       /\ ui_delivered' = metadata_options
       /\ ui_progress_shown' = FALSE
       /\ IF metadata_options = <<>>
          THEN /\ ui_message' = "No metadata found for this artist and title."
               /\ ui_fault' = ""
               /\ UNCHANGED <<ui_metadata_options, ui_rows>>
          ELSE /\ ui_metadata_options' = sorted.list
               /\ IF sorted.raises
                  THEN /\ ui_fault' = "ValueError"
                       /\ UNCHANGED ui_rows
                  ELSE /\ ui_fault' = ""
                       /\ ui_rows' = ui_rows \o TableRows(sorted.list)
               /\ UNCHANGED ui_message
    /\ UNCHANGED <<ui_song_file_path, ui_apply_enabled>>
    /\ UNCHANGED <<sig_progress, n_finished, fetchVars, netVars, fileVars>>
    /\ UNCHANGED choose_call
    /\ UNCHANGED applyVars

---------------------------------------------------------------------------
(* The audio file and write_tags.                                          *)
(*                                                                         *)
(* A file is [ext, loads, tags]: the extension of its path, whether        *)
(* mutagen can load it, and its tag block [present, frames].  frames maps  *)
(* a frame id (ID3) or a key (Vorbis comment) to its list of values; a     *)
(* picture frame of ID3 is the frame "APIC:<description>".                 *)

\* str.lower() of an extension.
Lower(ext) ==
    CASE ext = ".MP3" -> ".mp3"
      [] ext = ".Opus" -> ".opus"
      [] OTHER -> ext

NoTags == [present |-> FALSE, frames |-> <<>>]

\* get_audio_file: the audio object, or MutagenError for an extension that
\* is neither .mp3 nor .opus and for a file mutagen cannot load.
\* A factory that loads every file as an MP3.
GetAudioFileAnyExt(f) == [raised |-> "", type |-> "MP3", tags |-> f.tags]

GetAudioFile(f) ==
    IF Lower(f.ext) = ".mp3" /\ f.loads
    THEN [raised |-> "", type |-> "MP3", tags |-> f.tags]
    ELSE IF Lower(f.ext) = ".opus" /\ f.loads
    THEN [raised |-> "", type |-> "OggOpus", tags |-> f.tags]
    ELSE [raised |-> "MutagenError", type |-> "", tags |-> NoTags]

\* audio.tags = ID3() and audio.add_tags(), when audio.tags is None.
EnsureTags(tags) ==
    IF tags.present THEN tags ELSE [present |-> TRUE, frames |-> <<>>]

\* An assignment that leaves the block with that one frame.
SetFrameAlone(tags, key, value) == [tags EXCEPT !.frames = (key :> value)]

\* tags[key] = value
SetFrame(tags, key, value) ==
    [tags EXCEPT !.frames = (key :> value) @@ tags.frames]

\* A writer that stores a field whether it is given or not.
SetAlways(tags, key, text) == SetFrame(tags, key, <<text>>)

\* One "if metadata.get(field): tags[key] = ..." of a writer, for a text.
SetIfGiven(tags, key, text) ==
    IF text # "" THEN SetFrame(tags, key, <<text>>) ELSE tags

\* The year of _write_mp3_tags: its first four characters.
SetMp3Year(tags, year) ==
    IF year # <<>> THEN SetFrame(tags, "TDRC", <<Take(year, 4)>>) ELSE tags

\* The year of _write_ogg_opus_tags: the text as it is.
SetOggYear(tags, year) ==
    IF year # <<>> THEN SetFrame(tags, "date", <<year>>) ELSE tags

\* _write_mp3_tags
WriteMp3Tags(tags, metadata) ==
    LET t0 == EnsureTags(tags)
        t1 == SetIfGiven(t0, "TPE1", metadata.artist)
        t2 == SetIfGiven(t1, "TIT2", metadata.title)
        t3 == SetIfGiven(t2, "TALB", metadata.album)
        t4 == SetMp3Year(t3, metadata.year)
        t5 == SetIfGiven(t4, "TRCK", metadata.track)
    IN SetIfGiven(t5, "TCON", metadata.genre)

\* _write_ogg_opus_tags
WriteOggOpusTags(tags, metadata) ==
    LET t0 == EnsureTags(tags)
        t1 == SetIfGiven(t0, "artist", metadata.artist)
        t2 == SetIfGiven(t1, "title", metadata.title)
        t3 == SetIfGiven(t2, "album", metadata.album)
        t4 == SetOggYear(t3, metadata.year)
        t5 == SetIfGiven(t4, "tracknumber", metadata.track)
    IN SetIfGiven(t5, "genre", metadata.genre)

\* A delall that finds no picture frame.
IsApicKeyNever(key) == FALSE

IsApicKey(key) == key \in {"APIC:", "APIC:Cover", "APIC:Back"}

\* _write_mp3_cover: delall("APIC"), then add one front cover.
WriteMp3Cover(tags, cover_data) ==
    LET t0   == EnsureTags(tags)
        kept == {k \in DOMAIN t0.frames : ~IsApicKey(k)}
        t1   == [t0 EXCEPT !.frames = [k \in kept |-> t0.frames[k]]]
    IN SetFrame(t1, "APIC:Cover",
                <<[mime |-> "image/jpeg", type |-> "front cover",
                   desc |-> "Cover", data |-> cover_data]>>)

\* base64.b64encode(picture.write()) of a front cover picture block.
EncodedPicture(cover_data) ==
    [base64 |-> [type |-> "front cover", mime |-> "image/jpeg",
                 data |-> cover_data]]

\* _write_ogg_opus_cover: the key is replaced by a list of one value.
WriteOggOpusCover(tags, cover_data) ==
    SetFrame(EnsureTags(tags), "metadata_block_picture",
             <<EncodedPicture(cover_data)>>)

\* Whether write_tags handles the cover: "if cover_data".
CoverGiven(cover_data) == cover_data # None /\ cover_data # ""

\* The tags write_tags has built when it calls audio.save().
TagsToSave(audio, metadata, cover_data) ==
    LET written == IF audio.type = "MP3"
                   THEN WriteMp3Tags(audio.tags, metadata)
                   ELSE WriteOggOpusTags(audio.tags, metadata)
    IN IF ~CoverGiven(cover_data) THEN written
       ELSE IF audio.type = "MP3" THEN WriteMp3Cover(written, cover_data)
       ELSE WriteOggOpusCover(written, cover_data)

\* The frame or key a field is written to.
FieldKey(type, field) ==
    IF type = "MP3"
    THEN CASE field = "artist" -> "TPE1" [] field = "title" -> "TIT2"
           [] field = "album" -> "TALB" [] field = "year" -> "TDRC"
           [] field = "track" -> "TRCK" [] field = "genre" -> "TCON"
    ELSE CASE field = "artist" -> "artist" [] field = "title" -> "title"
           [] field = "album" -> "album" [] field = "year" -> "date"
           [] field = "track" -> "tracknumber" [] field = "genre" -> "genre"

Fields == {"artist", "title", "album", "year", "track", "genre"}

\* The write_tags calls in one run of the model.
MaxWrites == 2

\* The metadata a write is called with.
Year1975   == <<"1", "9", "7", "5">>
Year197510 == <<"1", "9", "7", "5", "1", "0">>
AllMetadata ==
    [artist : {"", "Queen"}, title : {"", "Bohemian Rhapsody"},
     album : {"", "A Night at the Opera"},
     year : {<<>>, Year1975, Year197510},
     track : {"", "11"}, genre : {"", "Rock"}]
GivenFields(metadata) ==
    {f \in {"artist", "title", "album", "track", "genre"} : metadata[f] # ""}
    \cup (IF metadata.year # <<>> THEN {"year"} ELSE {})
\* Every metadata with no field, one field, all fields but one, or all
\* fields given.
WriteMetadata ==
    {m \in AllMetadata : Cardinality(GivenFields(m)) \in {0, 1, 5, 6}}
WriteCovers == {None, "jpeg-bytes-1", "jpeg-bytes-2"}

\* The tag blocks a file may start with.
OldMp3Tags ==
    [present |-> TRUE,
     frames |-> [k \in {"TPE1", "TIT2", "TALB", "TDRC", "TRCK", "TCON",
                        "TXXX:note", "APIC:", "APIC:Back"} |->
                   CASE k = "TDRC" -> <<<<"1", "9", "9", "1">>>>
                     [] k \in {"APIC:", "APIC:Back"} ->
                          <<[mime |-> "image/png", type |-> "other",
                             desc |-> k, data |-> "png-bytes-0"]>>
                     [] OTHER -> <<"old " \o k>>]]
OldOggTags ==
    [present |-> TRUE,
     frames |-> [k \in {"artist", "title", "album", "date", "tracknumber",
                        "genre", "comment", "metadata_block_picture"} |->
                   CASE k = "date" -> <<<<"1", "9", "9", "1">>>>
                     [] k = "metadata_block_picture" ->
                          <<EncodedPicture("jpeg-bytes-0"),
                            EncodedPicture("jpeg-bytes-9")>>
                     [] OTHER -> <<"old " \o k>>]]

InitialFiles ==
    {[ext |-> ".mp3", loads |-> TRUE, tags |-> NoTags],
     [ext |-> ".mp3", loads |-> TRUE, tags |-> OldMp3Tags],
     [ext |-> ".opus", loads |-> TRUE, tags |-> NoTags],
     [ext |-> ".opus", loads |-> TRUE, tags |-> OldOggTags],
     [ext |-> ".opus", loads |-> FALSE, tags |-> NoTags],
     [ext |-> ".flac", loads |-> TRUE, tags |-> NoTags]}

\* The second file where it is never selected.
SecondFile == [ext |-> ".wav", loads |-> TRUE, tags |-> NoTags]

\* No call of _choose_release.
NoCall == [release_list |-> <<>>, returned |-> <<>>]

NoWrite ==
    [n |-> 0, metadata |-> [artist |-> "", title |-> "", album |-> "",
                            year |-> <<>>, track |-> "", genre |-> ""],
     cover |-> None, before |-> [ext |-> "", loads |-> FALSE, tags |-> NoTags],
     type |-> "", outcome |-> "none"]

\* write_tags(song_file, metadata, cover_data) on a file f: the ways it
\* can end.  MutagenError when the file does not load; else the tags and
\* the cover are written and audio.save() either stores them or raises.
WriteOutcomes(f, metadata, cover_data) ==
    LET audio == GetAudioFile(f) IN
    IF audio.raised # ""
    THEN {[file |-> f, type |-> audio.type, outcome |-> audio.raised]}
    ELSE {[file |-> [f EXCEPT !.tags = TagsToSave(audio, metadata, cover_data)],
           type |-> audio.type, outcome |-> "saved"],
          [file |-> f, type |-> audio.type, outcome |-> "save failed"]}

\* write_tags on the file.
WriteTagsOn(metadata, cover_data) ==
    /\ \E o \in WriteOutcomes(file, metadata, cover_data) :
         /\ w_last' = [n |-> w_last.n + 1, metadata |-> metadata,
                       cover |-> cover_data, before |-> file,
                       type |-> o.type, outcome |-> o.outcome]
         /\ file' = o.file
    /\ UNCHANGED other_file

\* write_tags on the second file.
WriteTagsOnOther(metadata, cover_data) ==
    /\ \E o \in WriteOutcomes(other_file, metadata, cover_data) :
         /\ w_last' = [n |-> w_last.n + 1, metadata |-> metadata,
                       cover |-> cover_data, before |-> other_file,
                       type |-> o.type, outcome |-> o.outcome]
         /\ other_file' = o.file
    /\ UNCHANGED file

\* A call of write_tags, whoever makes it.
WriteTags ==
    /\ w_last.n < MaxWrites
    /\ \E metadata \in WriteMetadata, cover_data \in WriteCovers :
         WriteTagsOn(metadata, cover_data)
    /\ UNCHANGED <<fetchVars, netVars, sigVars, uiVars, choose_call>>
    /\ UNCHANGED applyVars

---------------------------------------------------------------------------
(* AutoSongTaggerUI: the tag fields, the Apply button, and the             *)
(* TagWriterThreads.                                                       *)
(*                                                                         *)
(* A text field that is set to a new text emits textChanged, which runs    *)
(* _on_current_tag_text_changed; setting it to the text it has emits       *)
(* nothing.  After a handler has set several fields, the button is as the  *)
(* last of these calls left it: ApplyAfterTexts.                           *)

NoRecords == <<>>

NA     == "N/A"
NAYear == <<"N", "/", "A">>
AllNA ==
    [artist |-> NA, title |-> NA, album |-> NA, year |-> NAYear,
     track |-> NA, genre |-> NA]

\* The truth value of audio.tags: a tag block that holds something.
TagsTruthy(tags) == tags.present /\ DOMAIN tags.frames # {}

\* _get_mp3_tag_value
GetMp3TagValue(tags, tag_name) ==
    IF tags.present /\ tag_name \in DOMAIN tags.frames
       /\ tags.frames[tag_name] # <<>>
    THEN tags.frames[tag_name][1]
    ELSE NA

\* _extract_mp3_tags
ExtractMp3Tags(audio) ==
    LET tags == audio.tags
        year == IF TagsTruthy(tags) /\ "TDRC" \in DOMAIN tags.frames
                   /\ tags.frames["TDRC"] # <<>>
                THEN LET year_str == tags.frames["TDRC"][1] IN
                     IF Len(year_str) >= 4 /\ IsDigit(Take(year_str, 4))
                     THEN Take(year_str, 4)
                     ELSE NAYear
                ELSE NAYear
    IN [artist |-> GetMp3TagValue(tags, "TPE1"),
        title  |-> GetMp3TagValue(tags, "TIT2"),
        album  |-> GetMp3TagValue(tags, "TALB"),
        year   |-> year,
        track  |-> GetMp3TagValue(tags, "TRCK"),
        genre  |-> GetMp3TagValue(tags, "TCON")]

\* tags.get(key, [default])[0]
OggGet(tags, key, default) ==
    IF key \in DOMAIN tags.frames THEN tags.frames[key][1] ELSE default

\* _extract_ogg_tags
ExtractOggTags(audio) ==
    LET tags == audio.tags IN
    IF ~tags.present THEN AllNA
    ELSE [artist |-> OggGet(tags, "artist", NA),
          title  |-> OggGet(tags, "title", NA),
          album  |-> OggGet(tags, "album", NA),
          year   |-> OggGet(tags, "date", NAYear),
          track  |-> OggGet(tags, "tracknumber", NA),
          genre  |-> OggGet(tags, "genre", NA)]

\* _extract_tags_from_audio
ExtractTagsFromAudio(audio) ==
    IF audio.type = "MP3" THEN ExtractMp3Tags(audio) ELSE ExtractOggTags(audio)

\* A clearing that puts the message into every field.
ClearAllToMessage(message) ==
    [artist |-> message, title |-> message, album |-> message,
     year |-> <<message>>, track |-> message, genre |-> message]

\* _clear_tag_fields(message)
ClearTagFields(message) == [EmptyFields EXCEPT !.artist = message]

\* The path of the one file on disk.
PathOf(f) == "song" \o f.ext

\* _on_current_tag_text_changed: what it sets the Apply button to.
OnCurrentTagTextChanged(path, original_tags, current, row_selected) ==
    IF path = "" THEN FALSE
    ELSE (original_tags # current) \/ row_selected

\* The Apply button after a handler has set the fields from old to new.
ApplyAfterTexts(enabled, old, new, path, original_tags, row_selected) ==
    IF new = old THEN enabled
    ELSE OnCurrentTagTextChanged(path, original_tags, new, row_selected)

\* display_current_tags with _handle_initial_tag_display_checks: the
\* fields, self._original_tags and the Apply button it leaves.
DisplayCurrentTags(path, f, current, original_tags, enabled, row_selected) ==
    LET audio == GetAudioFile(f)
        message == IF path = "" THEN "No file selected."
                   ELSE IF audio.raised # "" THEN "Error loading " \o path
                   ELSE "No tags found."
        cleared == ClearTagFields(message)
        tags == ExtractTagsFromAudio(audio)
    IN IF path = "" \/ audio.raised # "" \/ ~TagsTruthy(audio.tags)
       THEN [current |-> cleared, original_tags |-> original_tags,
             enabled |-> ApplyAfterTexts(enabled, current, cleared, path,
                                         original_tags, row_selected)]
       ELSE [current |-> tags, original_tags |-> tags,
             enabled |-> OnCurrentTagTextChanged(path, tags, tags,
                                                 row_selected)]

\* A row of the table whose items were removed.
EmptyRow ==
    [source |-> "", artist |-> "", title |-> "", album |-> "",
     year |-> <<>>, track |-> "", genre |-> ""]

\* The six tag fields as a row of the table fills them.
FieldsOfRow(row) ==
    [artist |-> row.artist, title |-> row.title, album |-> row.album,
     year |-> row.year, track |-> row.track, genre |-> row.genre]

\* browse_song_file, when the file f was chosen in the dialog: what it
\* does to the window.  clear() takes the items and the selection:
\* enable_apply_button then clears the tag fields that were just filled.
Browsed(f) ==
    LET path == PathOf(f)
        shown == DisplayCurrentTags(path, f, ui_current, ui_original_tags,
                                    ui_apply_enabled, ui_selected # 0)
    IN
    /\ ui_song_file_path' = path
    /\ ui_original_tags' = shown.original_tags
    /\ ui_current' = IF ui_selected # 0 THEN EmptyFields ELSE shown.current
    /\ ui_rows' = [i \in 1..Len(ui_rows) |-> EmptyRow]
    /\ ui_selected' = 0
    /\ ui_apply_enabled' = FALSE
    /\ UNCHANGED <<ui_metadata_options, ui_progress_shown, ui_message,
                   ui_fault, ui_delivered>>
    /\ UNCHANGED <<ui_fetch_enabled, f_running, ui_new_cover_data, writers,
                   sig_written>>
    /\ UNCHANGED <<fetchVars, netVars, sigVars, w_last, choose_call>>

\* browse_song_file, the file chosen.
BrowseSongFile ==
    /\ Browsed(file)
    /\ UNCHANGED <<file, other_file>>

\* browse_song_file, the second file chosen: it is the file from now on.
BrowseOtherFile ==
    /\ Browsed(other_file)
    /\ file' = other_file
    /\ other_file' = file

\* What the user may type into a tag field.
EditInputs == {<<"artist", "Queen">>}

\* The user edits one tag field: textChanged.
EditTagField ==
    /\ \E edit \in EditInputs :
         LET current == [ui_current EXCEPT ![edit[1]] = edit[2]] IN
         /\ current # ui_current
         /\ ui_current' = current
         /\ ui_apply_enabled' =
              OnCurrentTagTextChanged(ui_song_file_path, ui_original_tags,
                                      current, ui_selected # 0)
    /\ UNCHANGED <<ui_metadata_options, ui_rows, ui_progress_shown, ui_message,
                   ui_fault, ui_delivered, ui_song_file_path>>
    /\ UNCHANGED <<ui_fetch_enabled, f_running, ui_original_tags, ui_selected,
                   ui_new_cover_data, writers, sig_written>>
    /\ UNCHANGED <<fetchVars, netVars, sigVars, fileVars>>
    /\ UNCHANGED choose_call

\* What download_cover_art may return.
Downloads == {None, "jpeg-bytes-1"}

\* The cover_url of the selected row's record, when there is one.
CoverUrlOfRow(row) ==
    IF row <= Len(ui_metadata_options)
    THEN ui_metadata_options[row].cover_url
    ELSE None

\* enable_apply_button, when the user selects a row: the fields take the
\* row's texts, the cover of the record is downloaded, and the button is
\* set once more by _on_current_tag_text_changed.
SelectRow ==
    /\ \E row \in 1..Len(ui_rows) :
         LET current == FieldsOfRow(ui_rows[row])
             cover_url == CoverUrlOfRow(row)
         IN
         /\ row # ui_selected
         /\ ui_selected' = row
         /\ ui_current' = current
         /\ IF cover_url \notin {None, Absent, ""}
            THEN \E cover_data \in Downloads :
                   ui_new_cover_data' = IF CoverGiven(cover_data)
                                        THEN cover_data
                                        ELSE ui_new_cover_data
            ELSE UNCHANGED ui_new_cover_data
         /\ ui_apply_enabled' =
              OnCurrentTagTextChanged(ui_song_file_path, ui_original_tags,
                                      current, TRUE)
    /\ UNCHANGED <<ui_metadata_options, ui_rows, ui_progress_shown, ui_message,
                   ui_fault, ui_delivered, ui_song_file_path>>
    /\ UNCHANGED <<ui_fetch_enabled, f_running, ui_original_tags, writers,
                   sig_written>>
    /\ UNCHANGED <<fetchVars, netVars, sigVars, fileVars>>
    /\ UNCHANGED choose_call

\* enable_apply_button, when the user takes the selection away.
DeselectRow ==
    /\ ui_selected # 0
    /\ ui_selected' = 0
    /\ ui_current' = EmptyFields
    /\ ui_apply_enabled' =
         OnCurrentTagTextChanged(ui_song_file_path, ui_original_tags,
                                 EmptyFields, FALSE)
    /\ UNCHANGED <<ui_metadata_options, ui_rows, ui_progress_shown, ui_message,
                   ui_fault, ui_delivered, ui_song_file_path>>
    /\ UNCHANGED <<ui_fetch_enabled, f_running, ui_original_tags,
                   ui_new_cover_data, writers, sig_written>>
    /\ UNCHANGED <<fetchVars, netVars, sigVars, fileVars>>
    /\ UNCHANGED choose_call

\* _on_disc_cover_clicked, when an image was chosen: its bytes, or None
\* when it could not be read.
OnDiscCoverClicked ==
    /\ \E image \in Downloads : 
         /\ ui_new_cover_data' = image
         /\ ui_new_cover_data # image
    /\ UNCHANGED <<uiVars, fetchVars, netVars, sigVars, fileVars>>
    /\ UNCHANGED choose_call
    /\ UNCHANGED <<ui_fetch_enabled, f_running, ui_current, ui_original_tags,
                   ui_selected, writers, sig_written>>

\* The fetcher threads that may run at once in the model.
MaxFetches == 2

\* fetch_metadata, called again: nothing has disabled the Fetch button, so
\* this happens while a thread runs as well as after it has ended.  The
\* new thread takes the place of the old one in
\* self.metadata_fetcher_thread; the old one runs on.
FetchMetadataAgain ==
    /\ f_pc # "idle"
    /\ ui_fetch_enabled
    /\ f_running < MaxFetches
    /\ ui_song_file_path # ""
    /\ f_artist' = StripText("Queen")
    /\ f_title' = StripText("Bohemian Rhapsody")
    /\ f_use_public_apis' = TRUE
    /\ f_public_apis' = "PublicMusicAPIs"
    /\ f_pc' = "search_mb"
    /\ f_mb_results' = NoRecords
    /\ f_audiodb_results' = NoRecords
    /\ f_deezer_results' = NoRecords
    /\ f_lyrics_results' = NoRecords
    /\ f_options' = NoRecords
    /\ f_running' = f_running + 1
    /\ ui_rows' = <<>>
    /\ ui_apply_enabled' = FALSE
    /\ ui_progress_shown' = TRUE
    /\ ui_fault' = ""
    /\ ui_selected' = 0
    /\ ui_current' = IF ui_selected # 0 THEN EmptyFields ELSE ui_current
    /\ UNCHANGED <<ui_metadata_options, ui_message, ui_delivered,
                   ui_song_file_path>>
    /\ UNCHANGED <<ui_fetch_enabled, ui_original_tags, ui_new_cover_data,
                   writers, sig_written>>
    /\ UNCHANGED <<netVars, sigVars, fileVars>>
    /\ UNCHANGED choose_call

\* any(chosen_metadata.values())
AnyGiven(metadata) == GivenFields(metadata) # {}

\* A thread that is started without the cover.
NewWriterWithoutCover(song_file, metadata, cover_data) ==
    [pc |-> "started", song_file |-> song_file, metadata |-> metadata,
     cover_data |-> None, emitted |-> <<>>, outcome |-> "none"]

\* TagWriterThread.__init__
NewWriter(song_file, metadata, cover_data) ==
    [pc |-> "started", song_file |-> song_file, metadata |-> metadata,
     cover_data |-> cover_data, emitted |-> <<>>, outcome |-> "none"]

\* apply_tags: with no field filled a warning and nothing else; otherwise
\* the button is disabled and a writer thread is started.
ApplyTags ==
    /\ ui_apply_enabled
    /\ Len(writers) < MaxWrites
    /\ IF ~AnyGiven(ui_current)
       THEN /\ ui_message' = "No metadata to apply."
            /\ UNCHANGED <<ui_apply_enabled, writers>>
       ELSE /\ ui_apply_enabled' = FALSE
            /\ writers' = Append(writers,
                                 NewWriter(ui_song_file_path, ui_current,
                                           ui_new_cover_data))
            /\ UNCHANGED ui_message
    /\ UNCHANGED <<ui_metadata_options, ui_rows, ui_progress_shown, ui_fault,
                   ui_delivered, ui_song_file_path>>
    /\ UNCHANGED <<ui_fetch_enabled, f_running, ui_current, ui_original_tags,
                   ui_selected, ui_new_cover_data, sig_written>>
    /\ UNCHANGED <<fetchVars, netVars, sigVars, fileVars>>
    /\ UNCHANGED choose_call

ProgressSignal(message) ==
    [signal |-> "progress_signal", success |-> FALSE, message |-> message]

\* A run() that announces the cover whether there is one or not.
WriterCheckpointsWithCover(cover_data) ==
    <<ProgressSignal("Starting tag update..."),
      ProgressSignal("Processing cover art..."),
      ProgressSignal("Saving file...")>>

\* TagWriterThread.run: the progress signals before write_tags.
WriterCheckpoints(cover_data) ==
    <<ProgressSignal("Starting tag update...")>>
    \o (IF CoverGiven(cover_data)
        THEN <<ProgressSignal("Processing cover art...")>>
        ELSE <<>>)
    \o <<ProgressSignal("Saving file...")>>

\* A run() that gives no message when it fails.
FinishedSignalMute(outcome) ==
    [signal |-> "finished", success |-> outcome = "saved", message |-> ""]

\* TagWriterThread.run: the finished signal, after write_tags returned or
\* raised.
FinishedSignal(outcome) ==
    IF outcome = "saved"
    THEN [signal |-> "finished", success |-> TRUE,
          message |-> "ID3 tags updated successfully!"]
    ELSE [signal |-> "finished", success |-> FALSE,
          message |-> "Failed to apply tags: " \o outcome]

\* TagWriterThread.run, up to the call of write_tags.
TagWriterEmitProgress ==
    /\ \E i \in 1..Len(writers) :
         /\ writers[i].pc = "started"
         /\ writers' = [writers EXCEPT
                          ![i].pc = "saving",
                          ![i].emitted = WriterCheckpoints(writers[i].cover_data)]
    /\ UNCHANGED <<uiVars, fetchVars, netVars, sigVars, fileVars>>
    /\ UNCHANGED choose_call
    /\ UNCHANGED <<ui_fetch_enabled, f_running, ui_current, ui_original_tags,
                   ui_selected, ui_new_cover_data, sig_written>>

\* TagWriterThread.run: write_tags on the file of the thread's path, and
\* the finished signal, which is queued for the window's thread.
TagWriterWrite ==
    /\ \E i \in 1..Len(writers) :
         LET thread == writers[i] IN
         /\ thread.pc = "saving"
         /\ IF thread.song_file = PathOf(other_file)
            THEN WriteTagsOnOther(thread.metadata, thread.cover_data)
            ELSE WriteTagsOn(thread.metadata, thread.cover_data)
         /\ writers' = [writers EXCEPT
                          ![i].pc = "done",
                          ![i].outcome = w_last'.outcome,
                          ![i].emitted =
                              Append(@, FinishedSignal(w_last'.outcome))]
         /\ sig_written' = Append(sig_written,
                                  [writer |-> i,
                                   signal |-> FinishedSignal(w_last'.outcome)])
    /\ UNCHANGED <<uiVars, fetchVars, netVars, sigVars, choose_call>>
    /\ UNCHANGED <<ui_fetch_enabled, f_running, ui_current, ui_original_tags,
                   ui_selected, ui_new_cover_data>>

\* _on_tags_written: the message box; after a success the tags are read
\* again and the chosen cover is forgotten; the Apply button is enabled
\* and the progress bar hidden.
OnTagsWritten ==
    /\ sig_written # <<>>
    /\ LET finished == Head(sig_written).signal
           shown == DisplayCurrentTags(ui_song_file_path, file, ui_current,
                                       ui_original_tags, ui_apply_enabled,
                                       ui_selected # 0)
       IN
       /\ ui_message' = finished.message
       /\ IF finished.success
          THEN /\ ui_current' = shown.current
               /\ ui_original_tags' = shown.original_tags
               /\ ui_new_cover_data' = None
          ELSE UNCHANGED <<ui_current, ui_original_tags, ui_new_cover_data>>
    /\ sig_written' = Tail(sig_written)
    /\ ui_apply_enabled' = TRUE
    /\ ui_progress_shown' = FALSE
    /\ UNCHANGED <<ui_metadata_options, ui_rows, ui_fault, ui_delivered,
                   ui_song_file_path>>
    /\ UNCHANGED <<ui_fetch_enabled, f_running, ui_selected, writers>>
    /\ UNCHANGED <<fetchVars, netVars, sigVars, fileVars>>
    /\ UNCHANGED choose_call

---------------------------------------------------------------------------
(* The specifications.                                                     *)

FetchIdle ==
    /\ f_pc = "idle"
    /\ f_artist = ""
    /\ f_title = ""
    /\ f_use_public_apis = FALSE
    /\ f_public_apis = None
    /\ f_mb_results = NoRecords
    /\ f_audiodb_results = NoRecords
    /\ f_deezer_results = NoRecords
    /\ f_lyrics_results = NoRecords
    /\ f_options = NoRecords
    /\ net_mb = World(SearchAnswer(FALSE, FALSE, <<>>))
    /\ net_cover = <<>>
    /\ net_audiodb = [kind |-> "not asked", track_kind |-> "absent", tracks |-> <<>>]
    /\ net_deezer = [kind |-> "not asked", data |-> <<>>]
    /\ net_lyrics = [kind |-> "not asked"]
    /\ calls = <<>>
    /\ sig_progress = <<>>
    /\ n_finished = 0

\* self._original_tags = {}
EmptyDict == [empty |-> TRUE]

UiStarted ==
    /\ ui_fetch_enabled = TRUE
    /\ f_running = 0
    /\ ui_current = EmptyFields
    /\ ui_original_tags = EmptyDict
    /\ ui_selected = 0
    /\ ui_new_cover_data = None
    /\ writers = <<>>
    /\ sig_written = <<>>
    /\ ui_metadata_options = NoRecords
    /\ ui_rows = <<>>
    /\ ui_progress_shown = FALSE
    /\ ui_message = ""
    /\ ui_fault = ""
    /\ ui_delivered = NoRecords
    /\ ui_apply_enabled = FALSE

\* The fetch: a window with a file selected, one fetcher thread.
Init ==
    /\ FetchIdle
    /\ UiStarted
    /\ sig_finished = <<>>
    /\ ui_song_file_path = "Queen - Bohemian Rhapsody.mp3"
    /\ file = [ext |-> ".mp3", loads |-> TRUE, tags |-> NoTags]
    /\ w_last = NoWrite
    /\ other_file = SecondFile
    /\ choose_call = NoCall

Next ==
    \/ FetchMetadataRejected
    \/ FetchMetadata
    \/ RunSearchMusicBrainz
    \/ RunCoverArt
    \/ RunAudioDb
    \/ RunDeezer
    \/ RunLyrics
    \/ RunEmit
    \/ OnMetadataFetched

Spec == Init /\ [][Next]_vars

\* The writer: a file on disk and calls of write_tags.
InitWrite ==
    /\ FetchIdle
    /\ UiStarted
    /\ sig_finished = <<>>
    /\ ui_song_file_path = ""
    /\ file \in InitialFiles
    /\ w_last = NoWrite
    /\ other_file = SecondFile
    /\ choose_call = NoCall

NextWrite == WriteTags

SpecWrite == InitWrite /\ [][NextWrite]_vars

\* The sort alone: a window that has just been handed a list of records
\* of the secondary providers.
SortYears ==
    {<<"1", "9", "9", "9">>, <<"2", "0", "0", "1">>, <<>>,
     <<"a", "b", "c", "d">>, <<" ", "1", "9", "9">>, <<"1", "9", "^2", "5">>}
SortRecords ==
    {AudioDbRecord(AudioDbTrack(y, TRUE)) : y \in SortYears}
    \cup {DeezerRecord(DeezerTrack(y, TRUE)) :
            y \in {<<"1", "9", "9", "9">>, <<>>}}

InitSort ==
    /\ FetchIdle
    /\ UiStarted
    /\ sig_finished \in {<<l>> : l \in SeqUpTo(SortRecords, MaxList)}
    /\ ui_song_file_path = "Queen - Bohemian Rhapsody.mp3"
    /\ file = [ext |-> ".mp3", loads |-> TRUE, tags |-> NoTags]
    /\ w_last = NoWrite
    /\ other_file = SecondFile
    /\ choose_call = NoCall

NextSort == OnMetadataFetched

SpecSort == InitSort /\ [][NextSort]_vars

\* The window: browsing, editing, selecting, applying, with the writer
\* threads.  It starts either as __init__ leaves it, or with a file
\* browsed and one fetch handled, so that the table has rows; of a fetch
\* only its start is followed here.
UiFiles ==
    {[ext |-> ".MP3", loads |-> TRUE, tags |-> OldMp3Tags],
     [ext |-> ".opus", loads |-> TRUE, tags |-> NoTags],
     [ext |-> ".flac", loads |-> TRUE, tags |-> NoTags]}

FetchedAudioDb ==
    [kind |-> "ok", track_kind |-> "list",
     tracks |-> <<AudioDbTrack(<<"1", "9", "7", "0">>, TRUE)>>]
FetchedDeezer == [kind |-> "status", data |-> <<>>]

\* A fetch that has run and was handled: the MusicBrainz search and
\* Deezer failed, TheAudioDB answered with a track.
FetchHandled ==
    /\ f_pc = "done"
    /\ f_artist = "Queen"
    /\ f_title = "Bohemian Rhapsody"
    /\ f_use_public_apis = TRUE
    /\ f_public_apis = "PublicMusicAPIs"
    /\ f_mb_results = NoRecords
    /\ f_audiodb_results = SearchAudioDb(FetchedAudioDb)
    /\ f_deezer_results = SearchDeezer(FetchedDeezer)
    /\ f_lyrics_results = NoRecords
    /\ f_options = SearchAudioDb(FetchedAudioDb) \o SearchDeezer(FetchedDeezer)
    /\ net_mb = World(SearchAnswer(TRUE, FALSE, <<>>))
    /\ net_cover = <<>>
    /\ net_audiodb = FetchedAudioDb
    /\ net_deezer = FetchedDeezer
    /\ net_lyrics = [kind |-> "not asked"]
    /\ calls = <<[api |-> "search_recordings", arg |-> "Queen"],
                 [api |-> "audiodb", arg |-> "Queen"],
                 [api |-> "deezer", arg |-> "Queen"]>>
    /\ sig_progress = <<"Searching MusicBrainz...", "Searching TheAudioDB...",
                        "Searching Deezer...">>
    /\ n_finished = 1
    /\ sig_finished = <<>>
    /\ ui_delivered = f_options
    /\ ui_metadata_options = SortByYear(f_options).list
    /\ ui_rows = TableRows(ui_metadata_options)
    /\ ui_progress_shown = FALSE
    /\ ui_message = ""
    /\ ui_fault = ""
    /\ ui_apply_enabled = FALSE

InitUi ==
    /\ file \in UiFiles
    /\ w_last = NoWrite
    /\ other_file = SecondFile
    /\ choose_call = NoCall
    /\ \/ /\ FetchIdle
          /\ UiStarted
          /\ sig_finished = <<>>
          /\ ui_song_file_path = ""
       \/ /\ FetchHandled
          /\ ui_song_file_path = PathOf(file)
          /\ LET shown == DisplayCurrentTags(PathOf(file), file, EmptyFields,
                                             EmptyDict, FALSE, FALSE)
             IN /\ ui_current = shown.current
                /\ ui_original_tags = shown.original_tags
          /\ ui_fetch_enabled = TRUE
          /\ f_running = 0
          /\ ui_selected = 0
          /\ ui_new_cover_data = None
          /\ writers = <<>>
          /\ sig_written = <<>>

NextUi ==
    \/ BrowseSongFile
    \/ EditTagField
    \/ SelectRow
    \/ DeselectRow
    \/ FetchMetadataAgain
    \/ ApplyTags
    \/ TagWriterEmitProgress
    \/ TagWriterWrite
    \/ OnTagsWritten

SpecUi == InitUi /\ [][NextUi]_vars

\* The window with a file and no table rows: browsing, editing, choosing
\* a cover, applying, with the writer threads.
ApplyFiles ==
    UiFiles \cup {[ext |-> ".mp3", loads |-> TRUE, tags |-> NoTags]}

InitApply ==
    /\ FetchIdle
    /\ UiStarted
    /\ sig_finished = <<>>
    /\ ui_song_file_path = ""
    /\ file \in ApplyFiles
    /\ w_last = NoWrite
    /\ other_file = SecondFile
    /\ choose_call = NoCall

NextApply ==
    \/ BrowseSongFile
    \/ EditTagField
    \/ OnDiscCoverClicked
    \/ ApplyTags
    \/ TagWriterEmitProgress
    \/ TagWriterWrite
    \/ OnTagsWritten

SpecApply == InitApply /\ [][NextApply]_vars

\* The same window without the choice of a cover, under the scheduling
\* of threads and of the event loop: a thread that was started runs to
\* its end, and a queued signal is handled.
InitWriter ==
    /\ InitApply
    /\ file \in UiFiles

NextWriter ==
    \/ BrowseSongFile
    \/ EditTagField
    \/ ApplyTags
    \/ TagWriterEmitProgress
    \/ TagWriterWrite
    \/ OnTagsWritten

SpecWriterFair ==
    /\ InitWriter
    /\ [][NextWriter]_vars
    /\ WF_vars(TagWriterEmitProgress)
    /\ WF_vars(TagWriterWrite)
    /\ WF_vars(OnTagsWritten)

\* The window with two files on disk: a tagged MP3 file, and an Opus file
\* without tags.  The user browses to either,
\* edits, chooses a cover and applies.
InitFiles ==
    /\ FetchIdle
    /\ UiStarted
    /\ sig_finished = <<>>
    /\ ui_song_file_path = ""
    /\ file = [ext |-> ".MP3", loads |-> TRUE, tags |-> OldMp3Tags]
    /\ other_file = [ext |-> ".opus", loads |-> TRUE, tags |-> NoTags]
    /\ w_last = NoWrite
    /\ choose_call = NoCall

NextFiles ==
    \/ BrowseSongFile
    \/ BrowseOtherFile
    \/ EditTagField
    \/ OnDiscCoverClicked
    \/ ApplyTags
    \/ TagWriterEmitProgress
    \/ TagWriterWrite
    \/ OnTagsWritten

SpecFiles == InitFiles /\ [][NextFiles]_vars

\* _choose_release alone: a non-empty release list, and the call.
\* The releases of a list in the model.
MaxReleases == 3

\* _choose_release(release_list) is called and returns.
ChooseReleaseCall ==
    /\ choose_call.release_list # <<>>
    /\ choose_call.returned = <<>>
    /\ choose_call' = [choose_call EXCEPT
                         !.returned = <<ChooseRelease(choose_call.release_list)>>]
    /\ UNCHANGED <<fetchVars, netVars, sigVars, uiVars, fileVars, applyVars>>

\* The release lists of the call: releases with a date, with an empty
\* date, without a date, and without a date and an id.
InitChoose ==
    /\ FetchIdle
    /\ UiStarted
    /\ sig_finished = <<>>
    /\ ui_song_file_path = ""
    /\ file = SecondFile
    /\ w_last = NoWrite
    /\ other_file = SecondFile
    /\ choose_call \in
         {[release_list |-> l, returned |-> <<>>] :
            l \in SeqUpTo({RelDated, RelUndated,
                           [RelDated EXCEPT !.id = "rel2", !.date = <<>>],
                           [RelUndated EXCEPT !.id = Absent,
                                              !.title = "Live Killers"]},
                          MaxReleases) \ {<<>>}}

SpecChoose == InitChoose /\ [][ChooseReleaseCall]_vars

---------------------------------------------------------------------------
(* The properties.                                                         *)

\* The slot has handled the list that was delivered, and it was not empty.
SortHandled == sig_finished = <<>> /\ ui_delivered # <<>>

\* out is inp in ascending order of K, elements of equal K in their order
\* in inp.
IsStableSortOf(out, inp, K(_)) ==
    /\ Len(out) = Len(inp)
    /\ \E p \in [1..Len(inp) -> 1..Len(inp)] :
         /\ \A i, j \in 1..Len(inp) : i # j => p[i] # p[j]
         /\ \A i \in 1..Len(inp) : out[i] = inp[p[i]]
         /\ \A i, j \in 1..Len(inp) :
              i < j => \/ K(out[i]) < K(out[j])
                       \/ K(out[i]) = K(out[j]) /\ p[i] < p[j]

\* The key the records are to be ordered by: the number a year of decimal
\* digits only stands for, the sentinel for every other year.
NumericYearKey(meta) ==
    IF meta.year # <<>> /\ \A i \in 1..Len(meta.year) : meta.year[i] \in DecimalChars
    THEN DecimalValue(meta.year)
    ELSE SentinelYear

\* C1: every delivered list is shown sorted ascending by the numeric year,
\* every year that is not purely numeric counting as 9999, as a permutation
\* of the delivered list in which records of equal key keep their order.
C1_SortedByNumericYear ==
    SortHandled =>
        /\ ui_fault = ""
        /\ IsStableSortOf(ui_metadata_options, ui_delivered, NumericYearKey)

---------------------------------------------------------------------------
(* The fetch.                                                              *)

ApisCalled == {calls[i].api : i \in 1..Len(calls)}

CallsTo(api) == {i \in 1..Len(calls) : calls[i].api = api}

\* The list the thread emitted: still queued, or already handled.
Delivered == IF sig_finished # <<>> THEN Head(sig_finished) ELSE ui_delivered

\* The records fetch_song_metadata made of the answers of the server.
PrimaryFound == FetchSongMetadata(f_artist, f_title, net_mb).results

IsPrimary(meta) == meta.source \in {"MusicBrainz", "MusicBrainz (with cover)"}

PositionIn(list, meta) == CHOOSE i \in 1..Len(list) : list[i] = meta

\* A fetch whose primary provider returned two records, one of the year
\* 1975 and one without a year, has been handled by the window.
TwoPrimaryHandled ==
    /\ f_pc = "done"
    /\ SortHandled
    /\ Len(f_mb_results) = 2
    /\ \E d, u \in 1..2 :
         f_mb_results[d].year = Year1975 /\ f_mb_results[u].year = <<>>

DatedPrimary   == f_mb_results[CHOOSE d \in 1..2 : f_mb_results[d].year = Year1975]
UndatedPrimary == f_mb_results[CHOOSE u \in 1..2 : f_mb_results[u].year = <<>>]

\* C2 (unqualified): of two primary records, one of 1975 and one without a
\* year, the dated one is first and the undated one last in the sorted
\* list, whatever the secondary providers returned.
C2_DatedFirstUndatedLast ==
    TwoPrimaryHandled =>
        /\ ui_metadata_options[1] = DatedPrimary
        /\ ui_metadata_options[Len(ui_metadata_options)] = UndatedPrimary

\* The sort raised: the list is as it was delivered, no row is shown, and
\* a year of the list holds a digit that is not a decimal one.
SortFaulted ==
    /\ ui_fault = "ValueError"
    /\ ui_metadata_options = ui_delivered
    /\ ui_rows = <<>>
    /\ \E i \in 1..Len(ui_delivered) :
         \E k \in 1..Len(ui_delivered[i].year) :
            ui_delivered[i].year[k] \in SuperscriptChars

\* C2: of two primary records, one of 1975 and one without a year, the
\* dated one stands before the undated one in the sorted list; only
\* secondary records with a key below 1975 stand before the dated one, only
\* secondary records with the key 9999 stand behind the undated one, and
\* the secondary records between them have keys from 1975 to 9999.  The
\* one exception is a list on which the sort raises: it stays as delivered
\* and is not shown.
C2_DatedBeforeUndated ==
    TwoPrimaryHandled =>
        IF ui_fault # "" THEN SortFaulted ELSE
        LET sorted == ui_metadata_options
            d == PositionIn(sorted, DatedPrimary)
            u == PositionIn(sorted, UndatedPrimary)
        IN /\ Len(sorted) = Len(ui_delivered)
           /\ d < u
           /\ \A i \in 1..Len(sorted) :
                /\ i < d => ~IsPrimary(sorted[i]) /\ YearKey(sorted[i]).val < 1975
                /\ (d < i /\ i < u) =>
                      /\ ~IsPrimary(sorted[i])
                      /\ YearKey(sorted[i]).val >= 1975
                      /\ YearKey(sorted[i]).val <= SentinelYear
                /\ i > u => /\ ~IsPrimary(sorted[i])
                            /\ YearKey(sorted[i]).val = SentinelYear

\* The undated record was found first, and a secondary record of an
\* earlier year stands before the dated one.
C2_Scenario ==
    /\ TwoPrimaryHandled
    /\ ui_fault = ""
    /\ ui_delivered[1] = UndatedPrimary
    /\ PositionIn(ui_metadata_options, DatedPrimary) = 2
    /\ PositionIn(ui_metadata_options, UndatedPrimary) = 3

\* C3: Lyrics.ovh is queried only in a fetch with the public APIs on, after
\* the MusicBrainz search, TheAudioDB and Deezer were queried, and only
\* when none of the three contributed a record.
C3_LyricsLastResort ==
    \A i \in CallsTo("lyrics") :
        /\ f_use_public_apis
        /\ \E j \in CallsTo("search_recordings") : j < i
        /\ \E j \in CallsTo("audiodb") : j < i
        /\ \E j \in CallsTo("deezer") : j < i
        /\ f_mb_results = <<>>
        /\ f_audiodb_results = <<>>
        /\ f_deezer_results = <<>>

\* Lyrics.ovh was queried.
C3_Scenario == CallsTo("lyrics") # {} /\ f_pc = "done"

\* What Lyrics.ovh is to contribute for the artist and title of the fetch.
ExpectedLyricsRecord(meta) ==
    /\ meta.artist = f_artist
    /\ meta.title = f_title
    /\ meta.album = ""
    /\ meta.year = <<>>
    /\ meta.track = ""
    /\ meta.genre = ""

LyricsContribution ==
    /\ "lyrics" \in ApisCalled
    /\ net_lyrics.kind = "ok" =>
         /\ Len(f_lyrics_results) = 1
         /\ ExpectedLyricsRecord(f_lyrics_results[1])
         /\ Delivered = f_lyrics_results

\* C4 (unqualified): in a fetch with the public APIs on whose MusicBrainz
\* search returned no record, Lyrics.ovh is queried, and on success it
\* contributes one record of the artist and title with the other fields
\* empty.
C4_LyricsWhenPrimaryEmpty ==
    (f_pc = "done" /\ f_use_public_apis /\ f_mb_results = <<>>) =>
        LyricsContribution

\* C4: in a fetch with the public APIs on in which the MusicBrainz search,
\* TheAudioDB and Deezer all returned no record, Lyrics.ovh is queried, and
\* on success it contributes exactly one record, of the artist and title of
\* the fetch and with album, year, track and genre empty.
C4_LyricsWhenAllEmpty ==
    (/\ f_pc = "done"
     /\ f_use_public_apis
     /\ f_mb_results = <<>>
     /\ f_audiodb_results = <<>>
     /\ f_deezer_results = <<>>) =>
        LyricsContribution

\* Lyrics.ovh answered and its record was delivered.
C4_Scenario ==
    /\ f_pc = "done"
    /\ net_lyrics.kind = "ok"
    /\ Len(Delivered) = 1
    /\ Delivered[1].source = "Lyrics.ovh"

\* C5: a fetch with the public APIs off queries neither TheAudioDB nor
\* Deezer nor Lyrics.ovh and delivers exactly the records of the
\* MusicBrainz search.
C5_PrimaryOnly ==
    (n_finished > 0 /\ ~f_use_public_apis) =>
        /\ ApisCalled \cap {"audiodb", "deezer", "lyrics"} = {}
        /\ Delivered = PrimaryFound

\* A fetch with the public APIs off delivered two records.
C5_Scenario ==
    /\ n_finished > 0
    /\ ~f_use_public_apis
    /\ Len(Delivered) = 2

CoverLoopDone == f_pc \in {"audiodb", "deezer", "lyrics", "emit", "done"}

\* What the loop leaves of the record found[i], looked up with answer.
CoverOutcome(found, enhanced, answer) ==
    LET url == SearchMusicbrainzCoverArt(answer) IN
    IF url # None
    THEN enhanced = [found EXCEPT !.cover_url = url,
                                  !.source = "MusicBrainz (with cover)"]
    ELSE /\ enhanced = found
         /\ enhanced.source = "MusicBrainz"
         /\ enhanced.cover_url = None

C7_BlocksInOrder ==
    n_finished > 0 =>
        /\ Delivered = f_mb_results \o f_audiodb_results
                          \o f_deezer_results \o f_lyrics_results
        /\ Len(Delivered) = Len(f_mb_results) + Len(f_audiodb_results)
                              + Len(f_deezer_results) + Len(f_lyrics_results)
        /\ Len(f_mb_results) = Len(PrimaryFound)
        /\ \A i \in 1..Len(PrimaryFound) :
             [f_mb_results[i] EXCEPT !.cover_url = None,
                                     !.source = "MusicBrainz"] = PrimaryFound[i]
        /\ f_audiodb_results =
             IF "audiodb" \in ApisCalled /\ net_audiodb.kind = "ok"
                /\ net_audiodb.track_kind = "list"
                /\ \A i \in 1..Len(net_audiodb.tracks) : net_audiodb.tracks[i].is_dict
             THEN [i \in 1..Len(net_audiodb.tracks) |->
                     AudioDbRecord(net_audiodb.tracks[i])]
             ELSE <<>>
        /\ f_deezer_results =
             IF "deezer" \in ApisCalled /\ net_deezer.kind = "ok"
                /\ \A i \in 1..Len(net_deezer.data) : net_deezer.data[i].is_dict
             THEN [i \in 1..Len(net_deezer.data) |->
                     DeezerRecord(net_deezer.data[i])]
             ELSE <<>>
        /\ "lyrics" \notin ApisCalled => f_lyrics_results = <<>>

\* Three providers contributed to one delivered list.
C7_Scenario ==
    /\ n_finished > 0
    /\ Len(f_mb_results) = 2
    /\ Len(f_audiodb_results) = 1
    /\ Len(f_deezer_results) = 1

\* C8: no provider's search raises: a failed request, a status other than
\* success and a payload that cannot be read all end in an empty list.
C8_SearchNeverRaises ==
    /\ f_pc # "crashed"
    /\ net_audiodb.kind \in {"exception", "status"} => f_audiodb_results = <<>>
    /\ net_deezer.kind \in {"exception", "status"} => f_deezer_results = <<>>
    /\ net_lyrics.kind \in {"exception", "status"} => f_lyrics_results = <<>>

\* C9: a fetch that has ended has emitted its completion exactly once.
C9_FetchDelivers ==
    /\ n_finished <= 1
    /\ f_pc \in {"done", "crashed"} => n_finished = 1

---------------------------------------------------------------------------
(* The writer.                                                             *)

WriteSaved == w_last.outcome = "saved"

IsGiven(field) ==
    IF field = "year" THEN w_last.metadata.year # <<>>
    ELSE w_last.metadata[field] # ""

\* The frame of the field is what it was before the write.
FrameUntouched(field) ==
    LET key == FieldKey(w_last.type, field)
        old == w_last.before.tags.frames
        new == file.tags.frames
    IN /\ (key \in DOMAIN new) <=> (key \in DOMAIN old)
       /\ key \in DOMAIN old => new[key] = old[key]

\* The frame of the field holds the value, and nothing else.
FrameHolds(field, value) ==
    LET key == FieldKey(w_last.type, field) IN
    /\ key \in DOMAIN file.tags.frames
    /\ file.tags.frames[key] = <<value>>

\* The first four characters of a text.
FirstFour(text) == [i \in 1..(IF Len(text) < 4 THEN Len(text) ELSE 4) |-> text[i]]

\* C10 (unqualified): after a successful write every field given holds
\* exactly the value given, whatever was there, and every field not given
\* is what it was.
C10_FieldsAsGiven ==
    WriteSaved =>
        \A field \in Fields :
            IF IsGiven(field)
            THEN FrameHolds(field, w_last.metadata[field])
            ELSE FrameUntouched(field)

\* C10: after a successful write every field given holds exactly the value
\* given, whatever was there, but for the year of an MP3 file, which holds
\* the first four characters of the value; every field not given is what
\* it was.
C10_FieldsAsGivenYearCut ==
    WriteSaved =>
        \A field \in Fields :
            IF IsGiven(field)
            THEN IF field = "year" /\ w_last.type = "MP3"
                 THEN FrameHolds(field, FirstFour(w_last.metadata.year))
                 ELSE FrameHolds(field, w_last.metadata[field])
            ELSE FrameUntouched(field)

\* A write of an artist alone to an MP3 file that had all its frames.
C10_Scenario ==
    /\ WriteSaved
    /\ w_last.type = "MP3"
    /\ w_last.before.tags = OldMp3Tags
    /\ GivenFields(w_last.metadata) = {"artist"}
    /\ file.tags.frames["TPE1"] = <<"Queen">>
    /\ file.tags.frames["TDRC"] = <<<<"1", "9", "9", "1">>>>

\* C11: after a successful write with a year, the year frame or key holds
\* the first four characters of the year, in an MP3 and in an Ogg Opus
\* file alike.
C11_YearCutInBothVariants ==
    (WriteSaved /\ IsGiven("year")) =>
        FrameHolds("year", FirstFour(w_last.metadata.year))

\* The frames and keys a write may touch: the six fields and the pictures.
WrittenKeys ==
    {FieldKey(type, field) : type \in {"MP3", "OggOpus"}, field \in Fields}
PictureKeys == {"APIC:", "APIC:Cover", "APIC:Back", "metadata_block_picture"}

\* C12: no write, with or without a cover, removes or changes a frame or
\* key that is neither one of the six fields nor a picture.
C12_OtherFramesKept ==
    [][\A k \in DOMAIN file.tags.frames :
          k \notin WrittenKeys \cup PictureKeys =>
             /\ k \in DOMAIN file'.tags.frames
             /\ file'.tags.frames[k] = file.tags.frames[k]]_vars

\* A custom frame has survived two writes that were stored, the second one
\* with a cover.
C12_Scenario ==
    /\ w_last.n = 2
    /\ WriteSaved
    /\ CoverGiven(w_last.cover)
    /\ w_last.before.tags # OldMp3Tags
    /\ "TXXX:note" \in DOMAIN w_last.before.tags.frames
    /\ "TXXX:note" \in DOMAIN file.tags.frames
    /\ file.tags.frames["TXXX:note"] = <<"old TXXX:note">>

PicturesOf(f) == {k \in DOMAIN f.tags.frames : k \in PictureKeys}

\* The image a picture frame or an encoded picture block carries.
PayloadOf(picture) ==
    IF "base64" \in DOMAIN picture THEN picture.base64.data ELSE picture.data

\* C13: a stored write with a cover leaves exactly one picture frame or
\* key, with one value, the cover of that write, whatever pictures there
\* were; a stored write without a cover leaves the pictures as they were.
\* So after any writes the one picture is the cover of the last write that
\* had one.
C13_OnePicture ==
    [][(w_last' # w_last /\ w_last'.outcome = "saved") =>
          IF CoverGiven(w_last'.cover)
          THEN /\ Cardinality(PicturesOf(file')) = 1
               /\ \A k \in PicturesOf(file') :
                    /\ Len(file'.tags.frames[k]) = 1
                    /\ PayloadOf(file'.tags.frames[k][1]) = w_last'.cover
          ELSE /\ PicturesOf(file') = PicturesOf(file)
               /\ \A k \in PicturesOf(file) :
                    file'.tags.frames[k] = file.tags.frames[k]]_vars

\* A second cover has replaced the first in an MP3 file that had two
\* other pictures at the start.
C13_Scenario ==
    /\ w_last.n = 2
    /\ WriteSaved
    /\ w_last.type = "MP3"
    /\ w_last.cover = "jpeg-bytes-2"
    /\ "TXXX:note" \in DOMAIN file.tags.frames
    /\ PicturesOf(w_last.before) = {"APIC:Cover"}
    /\ PayloadOf(w_last.before.tags.frames["APIC:Cover"][1]) = "jpeg-bytes-1"
    /\ PayloadOf(file.tags.frames["APIC:Cover"][1]) = "jpeg-bytes-2"

---------------------------------------------------------------------------
(* The release details of one search.                                      *)

ReleaseCalls(release_id) ==
    {i \in CallsTo("get_release_by_id") : calls[i].arg = release_id}

SearchDone == f_pc \notin {"idle", "search_mb"}

\* The recordings of the answer whose chosen release is release_id.
Choosing(release_id) ==
    LET list == net_mb.search.recording_list IN
    {i \in 1..Len(list) :
        /\ list[i].has_release_list
        /\ list[i].release_list # <<>>
        /\ ChooseRelease(list[i].release_list).id = release_id}

---------------------------------------------------------------------------
(* The tag fields, the writer threads and the two buttons.                 *)

\* A supported file that loads and has no tag block.
NoTagBlock(f) ==
    f.loads /\ f.ext \in {".mp3", ".MP3", ".opus", ".OPUS"} /\ ~f.tags.present

\* C14, as stated: after a file with no tag block is read, the window
\* shows "N/A" in every one of the six fields.
C14_ShowsNA ==
    [][(BrowseSongFile /\ NoTagBlock(file)) => ui_current' = AllNA]_vars

\* C14, amended: for a file with no tag block the extraction yields "N/A"
\* for every field in both variants, but display_current_tags does not
\* show that record: the artist field reads "No tags found.", the other
\* five fields are empty, and _original_tags keeps its value.  (All six
\* are empty when a selected row was cleared by the same browse.)
C14_ExtractedNAShownNoTags ==
    [][(BrowseSongFile /\ NoTagBlock(file)) =>
         /\ ExtractTagsFromAudio(GetAudioFile(file)) = AllNA
         /\ ui_current' =
              [artist |-> IF ui_selected # 0 THEN "" ELSE "No tags found.",
               title |-> "", album |-> "", year |-> <<>>, track |-> "",
               genre |-> ""]
         /\ ui_original_tags' = ui_original_tags]_vars

C14_Scenario ==
    /\ NoTagBlock(file)
    /\ file.ext = ".opus"
    /\ ui_song_file_path = "song.opus"
    /\ ui_current.artist = "No tags found."
    /\ ui_current.year = <<>>
    /\ w_last.n = 0

\* An extension that is neither .mp3 nor .opus in any case of letters.
Unsupported(f) ==
    f.ext \notin {".mp3", ".MP3", ".Mp3", ".mP3", ".opus", ".OPUS", ".Opus"}

\* C15: for a file whose extension is neither .mp3 nor .opus, reading
\* shows the loading error in the window, a writer thread's write ends
\* with MutagenError and a finished signal of success = False with a
\* message, and no step changes the file.
C15_UnsupportedFails ==
    [][Unsupported(file) =>
         /\ file' = file
         /\ BrowseSongFile =>
              ui_current' =
                [artist |-> IF ui_selected # 0 THEN ""
                            ELSE "Error loading " \o ui_song_file_path',
                 title |-> "", album |-> "", year |-> <<>>, track |-> "",
                 genre |-> ""]
         /\ Len(sig_written') > Len(sig_written) =>
              LET finished == sig_written'[Len(sig_written')].signal IN
              /\ w_last'.outcome = "MutagenError"
              /\ finished.success = FALSE
              /\ finished.message # ""]_vars

C15_Scenario ==
    /\ Unsupported(file)
    /\ ui_song_file_path = "song.flac"
    /\ Len(writers) >= 1
    /\ writers[1].pc = "done"
    /\ writers[1].outcome = "MutagenError"
    /\ writers[1].metadata.artist = "Queen"
    /\ sig_written = <<>>
    /\ ui_message = "Failed to apply tags: MutagenError"
    /\ file.tags = NoTags

\* The checkpoints a run is to emit before it writes.
ExpectedCheckpoints(cover_data) ==
    IF cover_data \notin {None, ""}
    THEN <<[signal |-> "progress_signal", success |-> FALSE,
            message |-> "Starting tag update..."],
           [signal |-> "progress_signal", success |-> FALSE,
            message |-> "Processing cover art..."],
           [signal |-> "progress_signal", success |-> FALSE,
            message |-> "Saving file..."]>>
    ELSE <<[signal |-> "progress_signal", success |-> FALSE,
            message |-> "Starting tag update..."],
           [signal |-> "progress_signal", success |-> FALSE,
            message |-> "Saving file..."]>>

\* What a writer thread has emitted, by where it is.
EmittedInOrder(thread) ==
    LET expected == ExpectedCheckpoints(thread.cover_data)
        n == Len(expected)
    IN CASE thread.pc = "started" -> thread.emitted = <<>>
         [] thread.pc = "saving" -> thread.emitted = expected
         [] thread.pc = "done" ->
              /\ Len(thread.emitted) = n + 1
              /\ SubSeq(thread.emitted, 1, n) = expected
              /\ thread.emitted[n + 1].signal = "finished"

\* C16: every writer thread emits "starting", "processing cover" exactly
\* when it has a cover, and "saving", before write_tags begins and the
\* file is touched; then one finished signal, of success exactly when
\* write_tags stored the tags and otherwise with a message; a thread that
\* has emitted it emits nothing more.
C16_CheckpointsThenOneTerminal ==
    [][\A i \in 1..Len(writers') :
         /\ EmittedInOrder(writers'[i])
         /\ (i <= Len(writers) /\ writers[i].pc = "done") =>
              writers'[i] = writers[i]
         /\ (i <= Len(writers) /\ writers[i].pc = "started"
             /\ writers'[i].pc # "started") =>
              /\ writers'[i].pc = "saving"
              /\ file' = file
              /\ w_last' = w_last
         /\ (i <= Len(writers) /\ writers[i].pc = "saving"
             /\ writers'[i].pc # "saving") =>
              LET terminal == writers'[i].emitted[Len(writers'[i].emitted)] IN
              /\ w_last'.n = w_last.n + 1
              /\ terminal.success <=> w_last'.outcome = "saved"
              /\ terminal.success =>
                   file'.tags = TagsToSave(GetAudioFile(file),
                                           writers[i].metadata,
                                           writers[i].cover_data)
              /\ ~terminal.success =>
                   (terminal.message # "" /\ file' = file)]_vars

C16_Scenario ==
    /\ Len(writers) = 2
    /\ writers[1].pc = "done"
    /\ writers[1].cover_data = "jpeg-bytes-1"
    /\ writers[1].outcome = "saved"
    /\ Len(writers[1].emitted) = 4
    /\ writers[2].pc = "done"
    /\ writers[2].cover_data = None
    /\ writers[2].outcome = "save failed"
    /\ Len(writers[2].emitted) = 3

\* C17, as stated: while a fetcher thread runs the Fetch button is
\* disabled, and no second thread is started.
C17_OneFetchInFlight ==
    /\ f_running <= 1
    /\ f_running > 0 => ~ui_fetch_enabled

\* The writer threads whose finished signal was not handled yet.
WritesInFlight ==
    {i \in 1..Len(writers) :
        \/ writers[i].pc # "done"
        \/ \E j \in 1..Len(sig_written) : sig_written[j].writer = i}

\* The writer threads that have not left run().
WritesRunning == {i \in 1..Len(writers) : writers[i].pc # "done"}

\* C18, as stated: from the start of a write until its finished signal is
\* handled the Apply button is disabled, and no two writer threads run at
\* once.
C18_OneWriteInFlight ==
    /\ WritesInFlight # {} => ~ui_apply_enabled
    /\ Cardinality(WritesRunning) <= 1

\* The message a write of this outcome is to end with.
ExpectedMessage(outcome) ==
    IF outcome = "saved" THEN "ID3 tags updated successfully!"
    ELSE "Failed to apply tags: " \o outcome

\* C19: when the finished signal of a writer thread is handled, after a
\* success as after a failure, the Apply button is enabled and the
\* message of that thread's outcome is shown; and whenever a write is in
\* flight, its signal is handled and the button is enabled at some later
\* time.
C19_ReenabledWithMessage ==
    /\ [][Len(sig_written') < Len(sig_written) =>
            /\ ui_apply_enabled'
            /\ ui_message' =
                 ExpectedMessage(writers[Head(sig_written).writer].outcome)]_vars
    /\ \A i \in 1..MaxWrites :
         (i \in WritesInFlight) ~> (i \notin WritesInFlight)
    /\ (WritesInFlight # {}) ~> ui_apply_enabled

C19_Scenario ==
    /\ Len(writers) >= 1
    /\ writers[1].pc = "done"
    /\ writers[1].outcome = "save failed"
    /\ sig_written = <<>>
    /\ ui_apply_enabled
    /\ ui_message = "Failed to apply tags: save failed"

---------------------------------------------------------------------------
(* The release of a recording.                                             *)

\* The positions of a list whose release carries a date field.
DatedPositions(release_list) ==
    {i \in 1..Len(release_list) : release_list[i].has_date}

\* C21: for a non-empty release list _choose_release returns the release
\* at the least position that carries a date field, and the release at
\* position 1 when none carries one.
C21_FirstDatedElseFirst ==
    choose_call.returned # <<>> =>
      LET release_list == choose_call.release_list
          dated == DatedPositions(release_list)
      IN IF dated = {}
         THEN choose_call.returned = <<release_list[1]>>
         ELSE \E i \in dated :
                /\ \A j \in dated : i <= j
                /\ choose_call.returned = <<release_list[i]>>

\* One dated release behind two undated ones was chosen.
C21_Scenario ==
    /\ choose_call.release_list = <<RelUndated, RelUndated, RelDated>>
    /\ choose_call.returned = <<RelDated>>

\* The id of the release a recording of the search result is to be
\* filed under: that of the first release with a date, else of the first
\* release; empty without a release or without an id.
ReleaseIdOfChosen(recording) ==
    IF recording.has_release_list /\ recording.release_list # <<>>
    THEN LET release_list == recording.release_list
             dated == DatedPositions(release_list)
             chosen == IF dated = {} THEN release_list[1]
                       ELSE release_list[CHOOSE i \in dated :
                                            \A j \in dated : i <= j]
         IN IF chosen.id = Absent THEN "" ELSE chosen.id
    ELSE ""

\* C22, as stated: every record of the MusicBrainz search carries the id
\* of the release chosen for its recording, whether the recording came
\* with tags or its tags were fetched by recording id.
C22_ReleaseIdOfChosenRelease ==
    (SearchDone /\ f_pc # "crashed") =>
      \A i \in 1..Len(f_mb_results) :
        f_mb_results[i].release_id =
          ReleaseIdOfChosen(net_mb.search.recording_list[i])

---------------------------------------------------------------------------
(* What a write stores, and where.                                         *)

C24_BrowseDropsPendingCover ==
    [][(ui_song_file_path # "" /\ ui_song_file_path' # ui_song_file_path) =>
         ui_new_cover_data' = None]_vars

\* C25, as stated: the table has a row for every record of the list, and
\* row i shows record i.
C25_TableShowsList == ui_rows = TableRows(ui_metadata_options)

\* The frames and keys of the six fields that hold the text "N/A".
FramesHoldingNA(f) ==
    {k \in DOMAIN f.tags.frames :
        \/ k \in {"TDRC", "date"} /\ f.tags.frames[k] = <<NAYear>>
        \/ k \in WrittenKeys \ {"TDRC", "date"} /\ f.tags.frames[k] = <<NA>>}

\* C26, as stated: no frame or key of a file holds the text "N/A".
C26_NeverStoresNA == FramesHoldingNA(file) = {}

\* C27, as stated: after a file was selected, the stored original tags are
\* the record read from that file, and nothing of an earlier file when
\* the file has no tags or does not load.
C27_BaselineOfSelectedFile ==
    [][(BrowseSongFile \/ BrowseOtherFile) =>
         LET audio == GetAudioFile(file') IN
         IF audio.raised = "" /\ audio.tags.present
         THEN ui_original_tags' = ExtractTagsFromAudio(audio)
         ELSE ui_original_tags' \in {EmptyDict, AllNA}]_vars

===========================================================================
